---------------------------- MODULE Spec2Model ----------------------------
(***************************************************************************)
(* Seat reservation in the two standalone variants of the repository:      *)
(*   - the transactional variant (src/unnamed/part_000): reserveSeat runs  *)
(*     inside runTransaction, reservations live under their vehicle;       *)
(*   - the confirmation-dialog variant (src/src/App.jsx): the pre-check    *)
(*     reads the listener-fed local lists, the insert is a plain addDoc.   *)
(* A behaviour runs one variant (variable "variant"); the document store   *)
(* is modelled by what each SDK call does to it. Spec runs the reservation *)
(* flows of both variants, SpecAuth the cancel and delete handlers on      *)
(* their own, SpecOffer and SpecCreate the forms that add a vehicle.       *)
(***************************************************************************)
EXTENDS Integers, Sequences, FiniteSets, TLC

(***************************************************************************)
(* Bounds of the model.                                                    *)
(***************************************************************************)
\* number of reserveSeat calls issued in one behaviour (part_000)
MaxCalls == 2

\* runTransaction(db, fn) is called without options: the SDK's default
\* number of attempts applies
MaxAttempts == 5

\* number of reservation documents written in one behaviour (App.jsx)
MaxReservas == 2

Calls == 1..MaxCalls
AppResIds == 1..MaxReservas
Clients == {"p1", "p2"}
\* reservation ids: call k generates id k with doc(resCol); id 0 is a
\* reservation that was made in an earlier session
PriorRes == 0
ResIds == {PriorRes} \cup Calls
Vehicles == {"v1"}
\* the tours: the one of a page opened without ?tour=, and another one
DEFAULT_TOUR_ID == "default"
Tours == {DEFAULT_TOUR_ID, "otro"}
\* values the seats field of the create form is submitted with
SeatInputs == {0, 1, 2, 51}

(***************************************************************************)
(* Names are strings, modelled as sequences of characters, so that trim()  *)
(* and toLowerCase() are computed and not assumed.                         *)
(***************************************************************************)
NameInputs == { <<" ">>, <<"a">>, <<"A", " ">>, <<"b">> }
NoName == << >>
\* the participant of the earlier session
PriorName == <<"c">>

ToLowerChar(ch) == CASE ch = "A" -> "a" [] ch = "B" -> "b" [] ch = "C" -> "c" [] OTHER -> ch

\* String.prototype.toLowerCase
ToLower(s) == [i \in 1..Len(s) |-> ToLowerChar(s[i])]

RECURSIVE TrimStart(_)
TrimStart(s) == IF s # << >> /\ Head(s) = " " THEN TrimStart(Tail(s)) ELSE s

RECURSIVE TrimEnd(_)
TrimEnd(s) == IF s # << >> /\ s[Len(s)] = " " THEN TrimEnd(SubSeq(s, 1, Len(s) - 1)) ELSE s

\* String.prototype.trim
Trim(s) == TrimEnd(TrimStart(s))

\* requireName as it would be without the trim
requireNameUntrimmed(n) == n # << >>

\* requireName: false (after an alert) when the name is blank
requireName(n) == Trim(n) # << >>

\* a.toLowerCase() === name.trim().toLowerCase(), the identity test of every handler
SameIdentity(stored, n) == ToLower(stored) = ToLower(Trim(n))

VARIABLES
    variant,      \* what the behaviour runs: "tx" (part_000), "page" (part_000
                  \* with its pages), "create" (part_000, the forms), "app"
                  \* (App.jsx modules 2 and 3), "offer" (App.jsx module 1)
    vehicles,     \* part_000: tours/{tourId}/vehicles/{id}
    call,         \* part_000: the reserveSeat calls, by call number
    resDocs,      \* part_000: vehicles/{id}/reservations/{autoId}
    del,          \* part_000: the deleteMyVehicle call in flight on each vehicle
    dbVehiculos,  \* App.jsx: vehiculos/{autoId}
    dbReservas,   \* App.jsx: reservas/{autoId} and reservasMicrobus/{autoId}
    ui,           \* App.jsx: the useState values of each client
    request,      \* the last cancel or delete request and its outcome, in the
                  \* behaviours that keep it (NoRequest at first), else RequestOff
    page,         \* part_000: the name field and the vehicles list of each
                  \* client's page, in the behaviours that follow the pages
    failed,       \* App.jsx: the listeners of each client whose error callback
                  \* has run (the SDK sends a listener nothing after an error)
    tourId,       \* part_000: the tour each client's page was opened with
    markers,      \* part_000: tours/{tour}/payments and tours/{tour}/busSignups
    screen        \* App.jsx: the open module, the form fields, the success
                  \* dialog and the last alert of each client, in the
                  \* behaviours that follow them, else ScreenOff

txVars == <<vehicles, call, resDocs, del>>
appVars == <<dbVehiculos, dbReservas, ui>>
tourVars == <<tourId, markers>>
pageVars == <<page, failed, tourVars, screen>>
vars == <<variant, vehicles, call, resDocs, del, dbVehiculos, dbReservas, ui, request,
          page, failed, tourId, markers, screen>>

\* a vehicle document carries the tour of its path, tours/{tour}/vehicles/{id}
NoVehicle == [state |-> "none", tour |-> DEFAULT_TOUR_ID, ownerName |-> NoName,
              seatsTotal |-> 0]
IdleCall == [pc |-> "idle", tour |-> DEFAULT_TOUR_ID, name |-> NoName,
             vehicle |-> "v1", attempts |-> 0,
             vSeats |-> 0, resSnap |-> {}, result |-> "none"]
IdleDel == [pc |-> "idle", tour |-> DEFAULT_TOUR_ID, read |-> {}, pending |-> {}]
NoRes == [state |-> "none", vehicle |-> "v1", name |-> NoName]
NoRequest == [op |-> "none"]
RequestOff == [op |-> "off"]
ScreenOff == [op |-> "off"]
\* useState initial values of part_000 (lines 88-95): name, payments,
\* busSignups, vehicles; alert is the last alert() the page has shown; snap
\* is the vehicles snapshot last delivered to the page and fetching holds
\* the snapshots whose handler is awaiting its getDocs calls
InitialPage == [name |-> NoName, payments |-> << >>, busSignups |-> << >>,
                vehicles |-> {}, reservations |-> {}, alert |-> "none",
                snap |-> {}, fetching |-> {}]

\* the two marker collections of a tour; no document yet
Collections == {"payments", "busSignups"}
NoMarkers == [t \in Tours |-> [c \in Collections |-> << >>]]

\* every page is under the default tour and nothing has been signed
OneTour ==
    /\ tourId = [p \in Clients |-> DEFAULT_TOUR_ID]
    /\ markers = NoMarkers
    /\ failed = [p \in Clients |-> {}]
    /\ screen = ScreenOff

PagesUnopened ==
    /\ page = [p \in Clients |-> InitialPage]
    /\ OneTour

\* ReservationsOf as it would be if a deleted reservation stayed in the
\* collection
ReservationsOfEverWritten(v) ==
    {r \in ResIds : resDocs[r].state # "none" /\ resDocs[r].vehicle = v}

\* the reservation documents that exist under vehicle v
ReservationsOf(v) == {r \in ResIds : resDocs[r].state = "present" /\ resDocs[r].vehicle = v}

\* tourRef as it would be if it were built from DEFAULT_TOUR_ID
tourRefDefault(p) == DEFAULT_TOUR_ID

\* const tourRef = doc(collection(db, "tours"), tourId)
tourRef(p) == tourId[p]

\* doc(tourRef, "vehicles", v) for the tourRef of tour t: the document at
\* that path, if there is one
VehicleAt(t, v) == IF vehicles[v].tour = t THEN vehicles[v] ELSE NoVehicle

\* collection(doc(tourRef, "vehicles", v), "reservations") for the tourRef
\* of tour t
ReservationsAt(t, v) == IF vehicles[v].tour = t THEN ReservationsOf(v) ELSE {}

\* the store a session finds: an empty tour, or a tour of an earlier session
\* with one vehicle of two seats, both free or one of them taken
EmptyStore ==
    /\ vehicles = [v \in Vehicles |-> NoVehicle]
    /\ resDocs = [r \in ResIds |-> NoRes]

PriorStore ==
    \E taken \in BOOLEAN :
        /\ vehicles = [v \in Vehicles |->
                [state |-> "live", tour |-> DEFAULT_TOUR_ID, ownerName |-> <<"A">>,
                 seatsTotal |-> 2]]
        /\ resDocs = [r \in ResIds |->
                IF r = PriorRes /\ taken
                THEN [NoRes EXCEPT !.state = "present", !.name = PriorName]
                ELSE NoRes]

NoVehiculo == [state |-> "none", propietario |-> NoName, asientosDisponibles |-> 0,
               puntoEncuentro |-> "", tipoVehiculo |-> "propio"]
NoReserva == [state |-> "none", coll |-> "reservas", vehiculoId |-> "v1", pasajero |-> NoName]
NoData == [accion |-> "none"]
\* useState initial values (lines 56-76)
InitialUi == [nombreUsuario |-> NoName,
              vehiculos |-> {}, microbuses |-> {}, reservas |-> {}, reservasMicrobus |-> {},
              showConfirmacion |-> FALSE, confirmacionData |-> NoData, isLoading |-> FALSE,
              inflight |-> NoData, isLoadingList |-> TRUE]

InitTx ==
    /\ PriorStore
    /\ call = [k \in Calls |-> IdleCall]
    /\ del = [v \in Vehicles |-> IdleDel]

\* the values of the puntoEncuentro select: the placeholder option and one
\* of the five meeting points
PuntoInputs == {"", "Metrocentro"}
PuntosDeEncuentro == PuntoInputs \ {""}
TipoInputs == {"propio", "renta"}
AppSeatInputs == {1, 2}

\* what the asientosDisponibles field (input type="number") may hold, as its
\* decimal digits: nothing, 0, 1, 51
AsientosFields == {<< >>, <<0>>, <<1>>, <<5, 1>>}

\* Number(field): 0 for the empty string, else the decimal value
RECURSIVE NumberOf(_)
NumberOf(field) ==
    IF field = << >> THEN 0
    ELSE 10 * NumberOf(SubSeq(field, 1, Len(field) - 1)) + field[Len(field)]

\* the browser submits the form (and so calls onSubmit) only when the field
\* satisfies min="1" max="50"; an empty field, not being required, does
Submittable(field) ==
    field = << >> \/ (NumberOf(field) >= 1 /\ NumberOf(field) <= 50)

\* App.jsx, the store a session finds: no vehicle yet, or one vehicle that
\* was offered in an earlier session
NoVehiculos == dbVehiculos = [v \in Vehicles |-> NoVehiculo]

PriorVehiculo ==
    \E t \in TipoInputs, s \in AppSeatInputs :
        dbVehiculos = [v \in Vehicles |->
            [state |-> "live", propietario |-> <<"b">>, asientosDisponibles |-> s,
             puntoEncuentro |-> "Metrocentro", tipoVehiculo |-> t]]

\* the name field once each user has typed a name: the second user
\* left it blank, typed the first user's name in another case, or another name
TypedNames ==
    { [p \in Clients |-> IF p = "p1" THEN <<"a">> ELSE n] : n \in NameInputs \ {<<"a">>} }

\* the first snapshot of the two vehicle listeners has been delivered (in
\* modules 2 and 3 no vehicle document is written, so no other one follows)
InitApp ==
    /\ request = RequestOff /\ PagesUnopened
    /\ dbReservas = [r \in AppResIds |-> NoReserva]
    /\ \E names \in TypedNames :
          ui = [p \in Clients |->
                  [InitialUi EXCEPT
                      !.nombreUsuario = names[p],
                      !.isLoadingList = FALSE,
                      !.vehiculos = {v \in Vehicles : dbVehiculos[v].state = "live"},
                      !.microbuses = {v \in Vehicles : dbVehiculos[v].state = "live"
                                        /\ dbVehiculos[v].tipoVehiculo = "renta"}]]

\* the variant that is not run keeps its initial state
Idle(names) ==
    /\ request = RequestOff /\ PagesUnopened
    /\ dbReservas = [r \in AppResIds |-> NoReserva]
    /\ ui = [p \in Clients |-> [InitialUi EXCEPT !.nombreUsuario = names[p]]]

Init ==
    \/ /\ variant = "tx"
       /\ InitTx
       /\ NoVehiculos /\ Idle([p \in Clients |-> NoName])
    \/ /\ variant = "app"
       /\ PriorVehiculo /\ InitApp
       /\ EmptyStore /\ call = [k \in Calls |-> IdleCall] /\ del = [v \in Vehicles |-> IdleDel]

(***************************************************************************)
(* part_000: handleCreateVehicle                                           *)
(***************************************************************************)
ValidSeats(total) == total >= 1 /\ total <= 50

\* the handler in a page under tour t; addDoc gives the document the unused id v
handleCreateVehicleIn(t, v, n, seats) ==
    /\ variant = "create"
    /\ vehicles[v].state = "none"
    /\ IF requireName(n) /\ ValidSeats(seats)
       THEN vehicles' = [vehicles EXCEPT ![v] =
                [state |-> "live", tour |-> t, ownerName |-> Trim(n),
                 seatsTotal |-> seats]]
       ELSE UNCHANGED vehicles
    /\ UNCHANGED <<variant, call, resDocs, del, appVars, request, pageVars>>

handleCreateVehicle(v, n, seats) == handleCreateVehicleIn(DEFAULT_TOUR_ID, v, n, seats)

(***************************************************************************)
(* part_000: reserveSeat                                                   *)
(***************************************************************************)
\* v.seatsTotal || 0
SeatsOrZero(doc) == IF doc.seatsTotal > 0 THEN doc.seatsTotal ELSE 0

\* VehicleRead as it would be without the vSnap.exists() test
VehicleReadUnchecked(c) ==
    [c EXCEPT !.pc = "getDocs", !.vSeats = SeatsOrZero(VehicleAt(c.tour, c.vehicle))]

\* const vSnap = await tx.get(vehicleDoc); if (!vSnap.exists()) throw ...
VehicleRead(c) ==
    LET doc == VehicleAt(c.tour, c.vehicle) IN
    IF doc.state = "live"
    THEN [c EXCEPT !.pc = "getDocs", !.vSeats = SeatsOrZero(doc)]
    ELSE [c EXCEPT !.pc = "done", !.result = "NotFound"]

\* the handler is called in a page under tour t with the name field holding
\* n: requireName, then runTransaction runs the first attempt up to the
\* answer to tx.get
reserveSeatIn(t, k, n, v) ==
    /\ variant \in {"tx", "page"}
    /\ call[k].pc = "idle"
    /\ \A j \in Calls : j < k => call[j].pc # "idle"
    /\ vehicles[v].state # "none"
    /\ IF requireName(n)
       THEN call' = [call EXCEPT ![k] =
                VehicleRead([IdleCall EXCEPT !.tour = t, !.name = n, !.vehicle = v,
                                             !.attempts = 1])]
       ELSE UNCHANGED call
    /\ UNCHANGED <<variant, vehicles, resDocs, del, appVars, request, pageVars>>

reserveSeat(k, n, v) == reserveSeatIn(DEFAULT_TOUR_ID, k, n, v)

\* a later attempt starts again from tx.get
TxGet(k) ==
    /\ call[k].pc = "get"
    /\ call' = [call EXCEPT ![k] = VehicleRead(@)]
    /\ UNCHANGED <<variant, vehicles, resDocs, del, appVars, request, pageVars>>

\* Admission as it would be with the names compared as stored
AdmissionCaseSensitive(seats, snap, n) ==
    IF Cardinality(snap) >= seats THEN "Full"
    ELSE IF \E d \in snap : resDocs[d].name = Trim(n) THEN "AlreadyClaimed"
    ELSE "admit"

\* Admission as it would be with > in the place of >=
AdmissionOffByOne(seats, snap, n) ==
    IF Cardinality(snap) > seats THEN "Full"
    ELSE IF \E d \in snap : SameIdentity(resDocs[d].name, n) THEN "AlreadyClaimed"
    ELSE "admit"

\* the admission checks on what was read, in the order of the code
Admission(seats, snap, n) ==
    IF Cardinality(snap) >= seats THEN "Full"
    ELSE IF \E d \in snap : SameIdentity(resDocs[d].name, n) THEN "AlreadyClaimed"
    ELSE "admit"

\* const resSnap = await getDocs(resCol): a plain query, outside the
\* transaction's read set; then the two checks and tx.set
TxGetDocs(k) ==
    /\ call[k].pc = "getDocs"
    /\ LET snap == ReservationsAt(call[k].tour, call[k].vehicle)
           verdict == Admission(call[k].vSeats, snap, call[k].name) IN
       call' = [call EXCEPT ![k] =
            IF verdict = "admit"
            THEN [@ EXCEPT !.pc = "commit", !.resSnap = snap]
            ELSE [@ EXCEPT !.pc = "done", !.result = verdict]]
    /\ UNCHANGED <<variant, vehicles, resDocs, del, appVars, request, pageVars>>

\* what the commit verifies: the documents read with tx.get are unchanged.
\* Vehicle documents are never updated and ids never reused, so the vehicle
\* read is unchanged iff it still exists.
ReadSetUnchanged(k) == VehicleAt(call[k].tour, call[k].vehicle).state = "live"

\* TxCommit as it would be if a failed commit were sent again as it is,
\* without an end
TxCommitResending(k) ==
    /\ call[k].pc = "commit"
    /\ IF ReadSetUnchanged(k)
       THEN /\ resDocs' = [resDocs EXCEPT ![k] =
                    [NoRes EXCEPT !.state = "present", !.vehicle = call[k].vehicle,
                                  !.name = Trim(call[k].name)]]
            /\ call' = [call EXCEPT ![k].pc = "done", ![k].resSnap = {}, ![k].result = "ok"]
       ELSE /\ UNCHANGED resDocs
            /\ call' = [call EXCEPT ![k].attempts =
                                        IF @ < MaxAttempts THEN @ + 1 ELSE @]
    /\ UNCHANGED <<variant, vehicles, del, appVars, request, pageVars>>

\* the transaction commits, or is run again from tx.get, or gives up
TxCommit(k) ==
    /\ call[k].pc = "commit"
    /\ IF ReadSetUnchanged(k)
       THEN /\ resDocs' = [resDocs EXCEPT ![k] =
                    [NoRes EXCEPT !.state = "present", !.vehicle = call[k].vehicle,
                                  !.name = Trim(call[k].name)]]
            /\ call' = [call EXCEPT ![k].pc = "done", ![k].resSnap = {}, ![k].result = "ok"]
       ELSE /\ UNCHANGED resDocs
            /\ call' = [call EXCEPT ![k] =
                    IF @.attempts < MaxAttempts
                    THEN [@ EXCEPT !.pc = "get", !.resSnap = {}, !.attempts = @ + 1]
                    ELSE [@ EXCEPT !.pc = "done", !.resSnap = {}, !.result = "Aborted"]]
    /\ UNCHANGED <<variant, vehicles, del, appVars, request, pageVars>>

(***************************************************************************)
(* part_000: cancelMySeat(vehicleId, reservationId, reservationName),      *)
(* called with a reservation the client has been shown (it may already be  *)
(* gone from the store) while the name field holds n.                      *)
(***************************************************************************)
\* deleteDoc(ref): removes the document; succeeds without effect when the
\* document is already gone
DeleteDoc(d) == [d EXCEPT !.state = "deleted"]

\* a handler that keeps the request: what it was asked and how it answered
Answered(entry) == request' = IF request = RequestOff THEN RequestOff ELSE entry

\* the two guards of cancelMySeat, in the order of the code: the alert each
\* one shows, else "ok"
CancelCheck(reservationName, n) ==
    IF Trim(n) = << >> THEN "NameRequired"
    ELSE IF ToLower(reservationName) # ToLower(Trim(n)) THEN "NotAuthorized"
    ELSE "ok"

\* cancelMySeat as it would be if it deleted by vehicle instead of by id
cancelMySeatInClearingVehicle(t, r, n) ==
    /\ variant \in {"tx", "page"}
    /\ resDocs[r].state # "none"
    /\ resDocs' = IF /\ CancelCheck(resDocs[r].name, n) = "ok"
                     /\ vehicles[resDocs[r].vehicle].tour = t
                  THEN [o \in ResIds |->
                           IF resDocs[o].vehicle = resDocs[r].vehicle
                           THEN DeleteDoc(resDocs[o]) ELSE resDocs[o]]
                  ELSE resDocs
    /\ Answered([op |-> "cancelMySeat", name |-> n, reservation |-> r,
                 outcome |-> CancelCheck(resDocs[r].name, n)])
    /\ UNCHANGED <<variant, vehicles, call, del, appVars, pageVars>>

\* in a page under tour t: the checks, then deleteDoc at the path built
\* from tourRef, the vehicle id and the reservation id
cancelMySeatIn(t, r, n) ==
    /\ variant \in {"tx", "page"}
    /\ resDocs[r].state # "none"
    /\ resDocs' = IF /\ CancelCheck(resDocs[r].name, n) = "ok"
                     /\ vehicles[resDocs[r].vehicle].tour = t
                  THEN [resDocs EXCEPT ![r] = DeleteDoc(@)]
                  ELSE resDocs
    /\ Answered([op |-> "cancelMySeat", name |-> n, reservation |-> r,
                 outcome |-> CancelCheck(resDocs[r].name, n)])
    /\ UNCHANGED <<variant, vehicles, call, del, appVars, pageVars>>

cancelMySeat(r, n) == cancelMySeatIn(DEFAULT_TOUR_ID, r, n)

(***************************************************************************)
(* part_000: deleteMyVehicle(vehicleId, ownerName)                         *)
(***************************************************************************)
\* MayDelete as it would be with the owner's name left out of the test
MayDeleteAnyName(ownerName, n) == Trim(n) # << >>

MayDelete(ownerName, n) == ToLower(ownerName) = ToLower(Trim(n))

\* the owner check, then const resSnap = await getDocs(resCol)
deleteMyVehicleIn(t, v, n) ==
    /\ variant \in {"tx", "page"}
    /\ vehicles[v].state # "none"
    /\ del[v].pc # "deleting"
    /\ del' = IF MayDelete(vehicles[v].ownerName, n)
              THEN [del EXCEPT ![v] = [pc |-> "deleting", tour |-> t,
                                       read |-> ReservationsAt(t, v),
                                       pending |-> ReservationsAt(t, v)]]
              ELSE del
    /\ Answered([op |-> "deleteMyVehicle", name |-> n, vehicle |-> v,
                 outcome |-> IF MayDelete(vehicles[v].ownerName, n)
                             THEN "ok" ELSE "NotAuthorized"])
    /\ UNCHANGED <<variant, vehicles, call, resDocs, appVars, pageVars>>

deleteMyVehicle(v, n) == deleteMyVehicleIn(DEFAULT_TOUR_ID, v, n)

\* one deleteDoc(d.ref) of the Promise.all completes; it does so too when
\* another one has failed
DeleteReservation(v, r) ==
    /\ del[v].pc \in {"deleting", "failed"}
    /\ r \in del[v].pending
    /\ resDocs' = [resDocs EXCEPT ![r] = DeleteDoc(@)]
    /\ del' = [del EXCEPT ![v].pending = @ \ {r}]
    /\ UNCHANGED <<variant, vehicles, call, appVars, request, pageVars>>

\* one deleteDoc(d.ref) is rejected: Promise.all rejects and the handler
\* ends there
DeleteReservationFails(v, r) ==
    /\ del[v].pc \in {"deleting", "failed"}
    /\ r \in del[v].pending
    /\ del' = [del EXCEPT ![v].pending = @ \ {r}, ![v].pc = "failed"]
    /\ UNCHANGED <<variant, vehicles, call, resDocs, appVars, request, pageVars>>

\* the owner check passes and getDocs(resCol) is rejected: the handler ends
\* there
deleteMyVehicleReadFails(v, n) ==
    /\ variant \in {"tx", "page"}
    /\ vehicles[v].state # "none"
    /\ del[v].pc # "deleting"
    /\ MayDelete(vehicles[v].ownerName, n)
    /\ del' = [del EXCEPT ![v] = [IdleDel EXCEPT !.pc = "failed"]]
    /\ UNCHANGED <<variant, vehicles, call, resDocs, appVars, request, pageVars>>

\* DeleteVehicle as it would be if the vehicle were deleted without awaiting
\* the reservation deletes
DeleteVehicleNotAwaiting(v) ==
    /\ del[v].pc = "deleting"
    /\ vehicles' = IF vehicles[v].tour = del[v].tour
                   THEN [vehicles EXCEPT ![v] = DeleteDoc(@)]
                   ELSE vehicles
    /\ del' = [del EXCEPT ![v].pc = "done", ![v].read = {}]
    /\ UNCHANGED <<variant, call, resDocs, appVars, request, pageVars>>

\* await deleteDoc(vehicleDoc), once every reservation delete has completed;
\* the handler returns and its resSnap is gone
DeleteVehicle(v) ==
    /\ del[v].pc = "deleting"
    /\ del[v].pending = {}
    /\ vehicles' = IF vehicles[v].tour = del[v].tour
                   THEN [vehicles EXCEPT ![v] = DeleteDoc(@)]
                   ELSE vehicles
    /\ del' = [del EXCEPT ![v].pc = "done", ![v].read = {}]
    /\ UNCHANGED <<variant, call, resDocs, appVars, request, pageVars>>

NextTx ==
    \/ \E k \in Calls, n \in NameInputs, v \in Vehicles : reserveSeat(k, n, v)
    \/ \E k \in Calls : TxGet(k)
    \/ \E k \in Calls : TxGetDocs(k)
    \/ \E k \in Calls : TxCommit(k)
    \/ \E r \in ResIds, n \in NameInputs : cancelMySeat(r, n)
    \/ \E v \in Vehicles, n \in NameInputs : deleteMyVehicle(v, n)
    \/ \E v \in Vehicles, r \in ResIds : DeleteReservation(v, r)
    \/ \E v \in Vehicles : DeleteVehicle(v)

(***************************************************************************)
(* App.jsx: the store and the four snapshot listeners                      *)
(***************************************************************************)
\* the documents of collection c ("reservas" or "reservasMicrobus")
DocsOf(c) == {r \in AppResIds : dbReservas[r].state = "present" /\ dbReservas[r].coll = c}

LiveVehiculos == {v \in Vehicles : dbVehiculos[v].state = "live"}

\* addDoc generates a fresh document id
FreshIds == {r \in AppResIds : dbReservas[r].state = "none"}
NewId == CHOOSE r \in FreshIds : \A q \in FreshIds : r <= q

\* onSnapshot(vehiculos): setVehiculos(snapshot.docs); setIsLoadingList(false).
\* The first snapshot comes whatever the collection holds, a later one when
\* the collection has changed.
SnapshotVehiculos(p) ==
    /\ variant \in {"offer", "app"}
    /\ "vehiculos" \notin failed[p]
    /\ ui[p].isLoadingList \/ ui[p].vehiculos # LiveVehiculos
    /\ ui' = [ui EXCEPT ![p].vehiculos = LiveVehiculos, ![p].isLoadingList = FALSE]
    /\ UNCHANGED <<variant, txVars, dbVehiculos, dbReservas, request, pageVars>>

\* SnapshotReservas as it would be if the handler added the documents of the
\* snapshot to the list it holds
SnapshotReservasPatching(p) ==
    /\ variant = "app"
    /\ "reservas" \notin failed[p]
    /\ ui[p].reservas # DocsOf("reservas")
    /\ ui' = [ui EXCEPT ![p].reservas = @ \cup DocsOf("reservas")]
    /\ UNCHANGED <<variant, txVars, dbVehiculos, dbReservas, request, pageVars>>

\* onSnapshot(reservas): setReservas(snapshot.docs)
SnapshotReservas(p) ==
    /\ variant = "app"
    /\ "reservas" \notin failed[p]
    /\ ui[p].reservas # DocsOf("reservas")
    /\ ui' = [ui EXCEPT ![p].reservas = DocsOf("reservas")]
    /\ UNCHANGED <<variant, txVars, dbVehiculos, dbReservas, request, pageVars>>

\* onSnapshot(vehiculos where tipoVehiculo == "renta"): setMicrobus(snapshot.docs)
Rentas == {v \in LiveVehiculos : dbVehiculos[v].tipoVehiculo = "renta"}

SnapshotMicrobus(p) ==
    /\ variant \in {"offer", "app"}
    /\ "microbus" \notin failed[p]
    /\ ui[p].microbuses # Rentas
    /\ ui' = [ui EXCEPT ![p].microbuses = Rentas]
    /\ UNCHANGED <<variant, txVars, dbVehiculos, dbReservas, request, pageVars>>

\* onSnapshot(reservasMicrobus): setReservasMicrobus(snapshot.docs)
SnapshotReservasMicrobus(p) ==
    /\ variant = "app"
    /\ "reservasMicrobus" \notin failed[p]
    /\ ui[p].reservasMicrobus # DocsOf("reservasMicrobus")
    /\ ui' = [ui EXCEPT ![p].reservasMicrobus = DocsOf("reservasMicrobus")]
    /\ UNCHANGED <<variant, txVars, dbVehiculos, dbReservas, request, pageVars>>

\* the error callback of the vehiculos listener: console.error and
\* setIsLoadingList(false)
ErrorVehiculos(p) ==
    /\ variant = "offer"
    /\ "vehiculos" \notin failed[p]
    /\ ui' = [ui EXCEPT ![p].isLoadingList = FALSE]
    /\ failed' = [failed EXCEPT ![p] = @ \cup {"vehiculos"}]
    /\ UNCHANGED <<variant, txVars, dbVehiculos, dbReservas, request, page, tourVars, screen>>

\* the error callback of the microbus listener: console.error and setMicrobus([])
ErrorMicrobus(p) ==
    /\ variant = "offer"
    /\ "microbus" \notin failed[p]
    /\ ui' = [ui EXCEPT ![p].microbuses = {}]
    /\ failed' = [failed EXCEPT ![p] = @ \cup {"microbus"}]
    /\ UNCHANGED <<variant, txVars, dbVehiculos, dbReservas, request, page, tourVars, screen>>

\* the header's indicator: 'Conectando...' while isLoadingList, else
\* 'Conectado a Firebase'
Conectado(p) == ~ui[p].isLoadingList

(***************************************************************************)
(* App.jsx: module 1, ofrecer vehiculo                                     *)
(***************************************************************************)
\* the page behind the confirmation dialog (a full-screen overlay) cannot
\* be clicked, and its buttons are disabled while isLoading
InitialScreen == [activeModule |-> "null", asientosDisponibles |-> <<4>>,
                  puntoEncuentro |-> "", tipoVehiculo |-> "propio",
                  showExito |-> FALSE, alert |-> "none"]

Followed == screen # ScreenOff

\* the setters of a handler leave the screen of p as s
Shows(p, s) == screen' = IF Followed THEN [screen EXCEPT ![p] = s] ELSE screen

\* alert(...)
Alert(p, a) == Shows(p, [screen[p] EXCEPT !.alert = a])

\* {activeModule === m && ( ... )}: the section of module m is rendered
ModuleOpen(p, m) == Followed => screen[p].activeModule = m

\* the values the form of module 1 is submitted with are those of its fields
FormHolds(p, field, punto, tipo) ==
    Followed => /\ screen[p].asientosDisponibles = field
                /\ screen[p].puntoEncuentro = punto
                /\ screen[p].tipoVehiculo = tipo

\* {showExito && ( ... )}: the success dialog, a full-screen overlay
ExitoShown(p) == Followed /\ screen[p].showExito

PageEnabled(p) == ~ui[p].showConfirmacion /\ ~ui[p].isLoading /\ ~ExitoShown(p)

\* the modules a user opens: module 1 to offer a vehicle, module 2 or 3
\* when its section lists a vehicle
ModulesToOpen(p) ==
    IF variant = "offer" THEN {"ofrecer"}
    ELSE (IF \E v \in ui[p].vehiculos : dbVehiculos[v].tipoVehiculo = "propio"
          THEN {"reservar"} ELSE {})
         \cup (IF ui[p].microbuses # {} THEN {"microbus"} ELSE {})

\* setActiveModule(m): the three module buttons and the close button of a
\* section, which isLoading does not disable
setActiveModule(p, m) ==
    /\ Followed
    /\ m \in {"null"} \cup ModulesToOpen(p)
    /\ ~ui[p].showConfirmacion /\ ~ExitoShown(p)
    /\ screen[p].activeModule # m
    /\ Shows(p, [screen[p] EXCEPT !.activeModule = m])
    /\ UNCHANGED <<variant, txVars, appVars, request, page, failed, tourVars>>

\* Entendido: setShowExito(false)
handleCerrarExito(p) ==
    /\ ExitoShown(p)
    /\ Shows(p, [screen[p] EXCEPT !.showExito = FALSE])
    /\ UNCHANGED <<variant, txVars, appVars, request, page, failed, tourVars>>

handleOfrecerVehiculo(p, field, punto, tipo) ==
    /\ variant = "offer"
    /\ PageEnabled(p)
    /\ ModuleOpen(p, "ofrecer")
    /\ FormHolds(p, field, punto, tipo)
    /\ Submittable(field)
    /\ \E v \in Vehicles : dbVehiculos[v].state = "none"
    /\ IF requireName(ui[p].nombreUsuario) /\ punto # ""
       THEN /\ UNCHANGED screen
            /\ ui' = [ui EXCEPT ![p].showConfirmacion = TRUE,
                             ![p].confirmacionData =
                                [accion |-> "ofrecerVehiculo",
                                 datos |-> [propietario |-> Trim(ui[p].nombreUsuario),
                                            asientosDisponibles |-> NumberOf(field),
                                            puntoEncuentro |-> punto,
                                            tipoVehiculo |-> tipo]]]
       ELSE /\ UNCHANGED ui
            /\ Alert(p, IF requireName(ui[p].nombreUsuario)
                        THEN "PuntoRequired" ELSE "NameRequired")
    /\ UNCHANGED <<variant, txVars, dbVehiculos, dbReservas, request, page, failed, tourVars>>

(***************************************************************************)
(* App.jsx: module 2, reservar asiento                                     *)
(***************************************************************************)
\* getAsientosOcupados, on the client's own list
getAsientosOcupados(p, v) ==
    Cardinality({r \in ui[p].reservas : dbReservas[r].vehiculoId = v})

\* reservaExistente as it would be with the names compared as stored
reservaExistenteAsStored(view, v, n) ==
    \E r \in view : /\ dbReservas[r].vehiculoId = v
                    /\ dbReservas[r].pasajero = Trim(n)

\* reservas.find(r => r.vehiculoId === id && r.pasajero.toLowerCase() === ...)
reservaExistente(view, v, n) ==
    \E r \in view : /\ dbReservas[r].vehiculoId = v
                    /\ SameIdentity(dbReservas[r].pasajero, n)

\* the "Reservar Asiento" button is rendered for the propio vehicles of the
\* client's list that have asientosLibres > 0
ReservarAsientoShown(p, v) ==
    /\ v \in ui[p].vehiculos
    /\ dbVehiculos[v].tipoVehiculo = "propio"
    /\ dbVehiculos[v].asientosDisponibles - getAsientosOcupados(p, v) > 0

\* the two rejections of the handler, else the dialog
AsientoPreCheck(p, v) ==
    IF ~requireName(ui[p].nombreUsuario) THEN "NameRequired"
    ELSE IF reservaExistente(ui[p].reservas, v, ui[p].nombreUsuario) THEN "AlreadyReserved"
    ELSE "confirm"

handleReservarAsiento(p, v) ==
    /\ variant = "app"
    /\ PageEnabled(p)
    /\ ModuleOpen(p, "reservar")
    /\ ReservarAsientoShown(p, v)
    /\ IF AsientoPreCheck(p, v) = "confirm"
       THEN /\ UNCHANGED screen
            /\ ui' = [ui EXCEPT ![p].showConfirmacion = TRUE,
                             ![p].confirmacionData =
                                [accion |-> "reservarAsiento",
                                 datos |-> [vehiculoId |-> v,
                                            pasajero |-> Trim(ui[p].nombreUsuario)]]]
       ELSE /\ UNCHANGED ui
            /\ Alert(p, AsientoPreCheck(p, v))
    /\ UNCHANGED <<variant, txVars, dbVehiculos, dbReservas, request, page, failed, tourVars>>

(***************************************************************************)
(* App.jsx: module 3, reservar microbus                                    *)
(***************************************************************************)
MicrobusOcupados(p, v) ==
    Cardinality({r \in ui[p].reservasMicrobus : dbReservas[r].vehiculoId = v})

ReservarMicrobusShown(p, v) ==
    /\ v \in ui[p].microbuses
    /\ dbVehiculos[v].asientosDisponibles - MicrobusOcupados(p, v) > 0

\* the four rejections of the handler, else the dialog
MicrobusPreCheck(p, v) ==
    IF ~requireName(ui[p].nombreUsuario) THEN "NameRequired"
    ELSE IF ui[p].microbuses = {} THEN "NoMicrobus"
    ELSE IF reservaExistente(ui[p].reservasMicrobus, v, ui[p].nombreUsuario) THEN "AlreadyReserved"
    ELSE IF MicrobusOcupados(p, v) >= dbVehiculos[v].asientosDisponibles THEN "Full"
    ELSE "confirm"

handleReservarMicrobus(p, v) ==
    /\ variant = "app"
    /\ PageEnabled(p)
    /\ ModuleOpen(p, "microbus")
    /\ ReservarMicrobusShown(p, v)
    /\ IF MicrobusPreCheck(p, v) = "confirm"
       THEN /\ UNCHANGED screen
            /\ ui' = [ui EXCEPT ![p].showConfirmacion = TRUE,
                             ![p].confirmacionData =
                                [accion |-> "reservarMicrobus",
                                 datos |-> [vehiculoId |-> v,
                                            pasajero |-> Trim(ui[p].nombreUsuario)]]]
       ELSE /\ UNCHANGED ui
            /\ Alert(p, MicrobusPreCheck(p, v))
    /\ UNCHANGED <<variant, txVars, dbVehiculos, dbReservas, request, page, failed, tourVars>>

(***************************************************************************)
(* App.jsx: the confirmation dialog                                        *)
(***************************************************************************)
\* handleConfirmar as it would be if Confirmar could be pressed with the
\* dialog closed
handleConfirmarWithoutDialog(p) ==
    /\ variant \in {"app", "offer"}
    /\ ~ui[p].isLoading
    /\ ui[p].confirmacionData.accion # "none"
    /\ ui' = [ui EXCEPT ![p].isLoading = TRUE, ![p].inflight = ui[p].confirmacionData]
    /\ UNCHANGED <<variant, txVars, dbVehiculos, dbReservas, request, pageVars>>

\* Confirmar: handleConfirmar dispatches on confirmacionData.accion; the
\* confirmar* function runs up to its await addDoc(...)
handleConfirmar(p) ==
    /\ variant \in {"app", "offer"}
    /\ ui[p].showConfirmacion
    /\ ~ui[p].isLoading
    /\ ui[p].confirmacionData.accion # "none"
    /\ ui' = [ui EXCEPT ![p].isLoading = TRUE, ![p].inflight = ui[p].confirmacionData]
    /\ UNCHANGED <<variant, txVars, dbVehiculos, dbReservas, request, pageVars>>

\* Cancelar
handleCancelar(p) ==
    /\ variant \in {"app", "offer"}
    /\ ui[p].showConfirmacion
    /\ ui' = [ui EXCEPT ![p].showConfirmacion = FALSE, ![p].confirmacionData = NoData]
    /\ UNCHANGED <<variant, txVars, dbVehiculos, dbReservas, request, pageVars>>

\* finally { setIsLoading(false); setShowConfirmacion(false); }
Finally(u) == [u EXCEPT !.isLoading = FALSE, !.showConfirmacion = FALSE, !.inflight = NoData]

\* setExitoData(...); setShowExito(true); setActiveModule(null)
Exito(sc) == [sc EXCEPT !.showExito = TRUE, !.activeModule = "null"]

\* ... setAsientosDisponibles(4); setPuntoEncuentro(""); setTipoVehiculo("propio")
FormReset(sc) == [sc EXCEPT !.asientosDisponibles = <<4>>, !.puntoEncuentro = "",
                            !.tipoVehiculo = "propio"]

\* the addDoc of confirmarOfrecerVehiculo is applied and the function resumes
confirmarOfrecerVehiculo(p) ==
    /\ variant = "offer"
    /\ ui[p].isLoading
    /\ ui[p].inflight.accion = "ofrecerVehiculo"
    /\ \E v \in Vehicles :
          /\ dbVehiculos[v].state = "none"
          /\ dbVehiculos' = [dbVehiculos EXCEPT ![v] =
                [state |-> "live",
                 propietario |-> ui[p].inflight.datos.propietario,
                 asientosDisponibles |-> ui[p].inflight.datos.asientosDisponibles,
                 puntoEncuentro |-> ui[p].inflight.datos.puntoEncuentro,
                 tipoVehiculo |-> ui[p].inflight.datos.tipoVehiculo]]
    /\ ui' = [ui EXCEPT ![p] = Finally(@)]
    /\ Shows(p, FormReset(Exito(screen[p])))
    /\ UNCHANGED <<variant, txVars, dbReservas, request, page, failed, tourVars>>

\* the document that addDoc writes to collection c from confirmacionData.datos
ReservaDoc(c, datos) ==
    [state |-> "present", coll |-> c, vehiculoId |-> datos.vehiculoId,
     pasajero |-> datos.pasajero]

\* confirmarReservarAsiento as it would be if the store admitted the write
\* only while the vehicle has a free seat
confirmarReservarAsientoIfFree(p) ==
    /\ variant = "app"
    /\ ui[p].isLoading
    /\ ui[p].inflight.accion = "reservarAsiento"
    /\ FreshIds # {}
    /\ Cardinality({r \in DocsOf("reservas") :
            dbReservas[r].vehiculoId = ui[p].inflight.datos.vehiculoId})
          < dbVehiculos[ui[p].inflight.datos.vehiculoId].asientosDisponibles
    /\ dbReservas' = [dbReservas EXCEPT ![NewId] =
            ReservaDoc("reservas", ui[p].inflight.datos)]
    /\ ui' = [ui EXCEPT ![p] = Finally([@ EXCEPT !.reservas = @ \cup {NewId}])]
    /\ Shows(p, Exito(screen[p]))
    /\ UNCHANGED <<variant, txVars, dbVehiculos, request, page, failed, tourVars>>

\* the addDoc of confirmarReservarAsiento is applied and the function
\* resumes; the client's own listener shows its write at once
confirmarReservarAsiento(p) ==
    /\ variant = "app"
    /\ ui[p].isLoading
    /\ ui[p].inflight.accion = "reservarAsiento"
    /\ FreshIds # {}
    /\ dbReservas' = [dbReservas EXCEPT ![NewId] =
            ReservaDoc("reservas", ui[p].inflight.datos)]
    /\ ui' = [ui EXCEPT ![p] = Finally([@ EXCEPT !.reservas = @ \cup {NewId}])]
    /\ Shows(p, Exito(screen[p]))
    /\ UNCHANGED <<variant, txVars, dbVehiculos, request, page, failed, tourVars>>

confirmarReservarMicrobus(p) ==
    /\ variant = "app"
    /\ ui[p].isLoading
    /\ ui[p].inflight.accion = "reservarMicrobus"
    /\ FreshIds # {}
    /\ dbReservas' = [dbReservas EXCEPT ![NewId] =
            ReservaDoc("reservasMicrobus", ui[p].inflight.datos)]
    /\ ui' = [ui EXCEPT ![p] = Finally([@ EXCEPT !.reservasMicrobus = @ \cup {NewId}])]
    /\ Shows(p, Exito(screen[p]))
    /\ UNCHANGED <<variant, txVars, dbVehiculos, request, page, failed, tourVars>>

\* confirmarFails as it would be if the catch block closed the module too
confirmarFailsClosingModule(p) ==
    /\ variant \in {"app", "offer"}
    /\ ui[p].isLoading
    /\ ui' = [ui EXCEPT ![p] = Finally(@)]
    /\ Shows(p, [screen[p] EXCEPT !.alert = "Error", !.activeModule = "null"])
    /\ UNCHANGED <<variant, txVars, dbVehiculos, dbReservas, request, page, failed, tourVars>>

\* the addDoc is rejected: catch { alert(...) } finally { ... }
confirmarFails(p) ==
    /\ variant \in {"app", "offer"}
    /\ ui[p].isLoading
    /\ ui' = [ui EXCEPT ![p] = Finally(@)]
    /\ Alert(p, "Error")
    /\ UNCHANGED <<variant, txVars, dbVehiculos, dbReservas, request, page, failed, tourVars>>

(***************************************************************************)
(* App.jsx: handleCancelarReserva / handleCancelarReservaMicrobus, called  *)
(* with a reservation of the client's list; accept is the answer to        *)
(* confirm(...)                                                            *)
(***************************************************************************)
MayCancelReserva(pasajero, n) == ToLower(pasajero) = ToLower(Trim(n))

\* the guard, then the answer to confirm(...)
CancelarCheck(pasajero, n, accept) ==
    IF ~MayCancelReserva(pasajero, n) THEN "NotAuthorized"
    ELSE IF ~accept THEN "declined"
    ELSE "ok"

handleCancelarReserva(p, r, accept) ==
    /\ variant = "app"
    /\ PageEnabled(p)
    /\ ModuleOpen(p, "reservar")
    /\ r \in ui[p].reservas
    /\ IF CancelarCheck(dbReservas[r].pasajero, ui[p].nombreUsuario, accept) = "ok"
       THEN /\ dbReservas' = [dbReservas EXCEPT ![r] = DeleteDoc(@)]
            /\ ui' = [ui EXCEPT ![p].reservas = @ \ {r}]
       ELSE UNCHANGED <<dbReservas, ui>>
    /\ IF MayCancelReserva(dbReservas[r].pasajero, ui[p].nombreUsuario)
       THEN UNCHANGED screen
       ELSE Alert(p, "NotAuthorized")
    /\ Answered([op |-> "handleCancelarReserva", name |-> ui[p].nombreUsuario, reservation |-> r,
                 outcome |-> CancelarCheck(dbReservas[r].pasajero, ui[p].nombreUsuario, accept)])
    /\ UNCHANGED <<variant, txVars, dbVehiculos, page, failed, tourVars>>

handleCancelarReservaMicrobus(p, r, accept) ==
    /\ variant = "app"
    /\ PageEnabled(p)
    /\ ModuleOpen(p, "microbus")
    /\ r \in ui[p].reservasMicrobus
    /\ IF CancelarCheck(dbReservas[r].pasajero, ui[p].nombreUsuario, accept) = "ok"
       THEN /\ dbReservas' = [dbReservas EXCEPT ![r] = DeleteDoc(@)]
            /\ ui' = [ui EXCEPT ![p].reservasMicrobus = @ \ {r}]
       ELSE UNCHANGED <<dbReservas, ui>>
    /\ IF MayCancelReserva(dbReservas[r].pasajero, ui[p].nombreUsuario)
       THEN UNCHANGED screen
       ELSE Alert(p, "NotAuthorized")
    /\ Answered([op |-> "handleCancelarReservaMicrobus", name |-> ui[p].nombreUsuario, reservation |-> r,
                 outcome |-> CancelarCheck(dbReservas[r].pasajero, ui[p].nombreUsuario, accept)])
    /\ UNCHANGED <<variant, txVars, dbVehiculos, page, failed, tourVars>>

NextApp ==
    \/ \E p \in Clients : SnapshotReservas(p)
    \/ \E p \in Clients : SnapshotReservasMicrobus(p)
    \/ \E p \in Clients, v \in Vehicles : handleReservarAsiento(p, v)
    \/ \E p \in Clients, v \in Vehicles : handleReservarMicrobus(p, v)
    \/ \E p \in Clients : handleConfirmar(p)
    \/ \E p \in Clients : handleCancelar(p)
    \/ \E p \in Clients : confirmarReservarAsiento(p)
    \/ \E p \in Clients : confirmarReservarMicrobus(p)
    \/ \E p \in Clients : confirmarFails(p)
    \/ \E p \in Clients, r \in AppResIds, a \in BOOLEAN : handleCancelarReserva(p, r, a)
    \/ \E p \in Clients, r \in AppResIds, a \in BOOLEAN : handleCancelarReservaMicrobus(p, r, a)

Next == NextTx \/ NextApp

\* App.jsx, module 1 on its own: the vehicle is offered in this session
NextOffer ==
    \/ \E p \in Clients : SnapshotVehiculos(p)
    \/ \E p \in Clients : SnapshotMicrobus(p)
    \/ \E p \in Clients, f \in AsientosFields, pt \in PuntoInputs, t \in TipoInputs :
          handleOfrecerVehiculo(p, f, pt, t)
    \/ \E p \in Clients : handleConfirmar(p)
    \/ \E p \in Clients : handleCancelar(p)
    \/ \E p \in Clients : confirmarOfrecerVehiculo(p)
    \/ \E p \in Clients : confirmarFails(p)

InitOffer ==
    /\ variant = "offer"
    /\ NoVehiculos
    /\ \E names \in TypedNames : Idle(names)
    /\ EmptyStore /\ call = [k \in Calls |-> IdleCall] /\ del = [v \in Vehicles |-> IdleDel]

SpecOffer == InitOffer /\ [][NextOffer]_vars

\* App.jsx, module 1 with listeners that may fail
NextListen ==
    \/ NextOffer
    \/ \E p \in Clients : ErrorVehiculos(p)
    \/ \E p \in Clients : ErrorMicrobus(p)

SpecListen == InitOffer /\ [][NextListen]_vars

\* part_000, the vehicle form on its own
NextCreate ==
    \E v \in Vehicles, n \in NameInputs, s \in SeatInputs : handleCreateVehicle(v, n, s)

InitCreate ==
    /\ variant = "create"
    /\ EmptyStore /\ call = [k \in Calls |-> IdleCall] /\ del = [v \in Vehicles |-> IdleDel]
    /\ NoVehiculos /\ Idle([p \in Clients |-> NoName])

SpecCreate == InitCreate /\ [][NextCreate]_vars

Spec == Init /\ [][Next]_vars

(***************************************************************************)
(* The cancel and delete handlers on their own, called with any            *)
(* reservation or vehicle and any name, in behaviours that keep the        *)
(* request. They start once seats have been taken.                         *)
(***************************************************************************)
\* part_000: the first reserveSeat of the session has committed
SeatsTaken ==
    \E n \in {<<"a">>, <<"A", " ">>} :
        /\ vehicles = [v \in Vehicles |->
                [state |-> "live", tour |-> DEFAULT_TOUR_ID, ownerName |-> <<"A">>,
                 seatsTotal |-> 2]]
        /\ resDocs = [r \in ResIds |->
                IF r = PriorRes
                THEN [NoRes EXCEPT !.state = "present", !.name = PriorName]
                ELSE IF r = 1
                THEN [NoRes EXCEPT !.state = "present", !.name = Trim(n)]
                ELSE NoRes]
        /\ call = [k \in Calls |->
                IF k = 1
                THEN [IdleCall EXCEPT !.pc = "done", !.name = n, !.attempts = 1,
                                      !.vSeats = 2, !.result = "ok"]
                ELSE IdleCall]
        /\ del = [v \in Vehicles |-> IdleDel]

\* App.jsx: the first user has reserved, and the second one too when the
\* name typed is another person's; every listener is up to date
AsientosReservados ==
    \E names \in TypedNames, t \in TipoInputs :
        LET c == IF t = "renta" THEN "reservasMicrobus" ELSE "reservas"
            made == {1} \cup (IF Trim(names["p2"]) = NoName \/ SameIdentity(<<"a">>, names["p2"])
                              THEN {} ELSE {2})
        IN
        /\ dbVehiculos = [v \in Vehicles |->
                [state |-> "live", propietario |-> <<"b">>, asientosDisponibles |-> 2,
                 puntoEncuentro |-> "Metrocentro", tipoVehiculo |-> t]]
        /\ dbReservas = [r \in AppResIds |->
                IF r \in made
                THEN [state |-> "present", coll |-> c, vehiculoId |-> "v1",
                      pasajero |-> Trim(names[IF r = 1 THEN "p1" ELSE "p2"])]
                ELSE NoReserva]
        /\ ui = [p \in Clients |->
                [InitialUi EXCEPT
                    !.nombreUsuario = names[p],
                    !.isLoadingList = FALSE,
                    !.vehiculos = Vehicles,
                    !.microbuses = IF t = "renta" THEN Vehicles ELSE {},
                    !.reservas = IF t = "renta" THEN {} ELSE made,
                    !.reservasMicrobus = IF t = "renta" THEN made ELSE {}]]

InitAuth ==
    /\ request = NoRequest /\ PagesUnopened
    /\ \/ /\ variant = "tx"
          /\ SeatsTaken
          /\ NoVehiculos
          /\ dbReservas = [r \in AppResIds |-> NoReserva]
          /\ ui = [p \in Clients |-> InitialUi]
       \/ /\ variant = "app"
          /\ AsientosReservados
          /\ EmptyStore /\ call = [k \in Calls |-> IdleCall] /\ del = [v \in Vehicles |-> IdleDel]

NextAuth ==
    \/ \E r \in ResIds, n \in NameInputs : cancelMySeat(r, n)
    \/ \E v \in Vehicles, n \in NameInputs : deleteMyVehicle(v, n)
    \/ \E v \in Vehicles, r \in ResIds : DeleteReservation(v, r)
    \/ \E v \in Vehicles : DeleteVehicle(v)
    \/ \E p \in Clients, r \in AppResIds, a \in BOOLEAN : handleCancelarReserva(p, r, a)
    \/ \E p \in Clients, r \in AppResIds, a \in BOOLEAN : handleCancelarReservaMicrobus(p, r, a)

SpecAuth == InitAuth /\ [][NextAuth]_vars

(***************************************************************************)
(* part_000 from a full vehicle: one seat, taken by "a" in an earlier      *)
(* session; every handler of the variant may run.                          *)
(***************************************************************************)
FullVehicle ==
    /\ vehicles = [v \in Vehicles |->
            [state |-> "live", tour |-> DEFAULT_TOUR_ID, ownerName |-> <<"A">>,
                 seatsTotal |-> 1]]
    /\ resDocs = [r \in ResIds |->
            IF r = PriorRes
            THEN [NoRes EXCEPT !.state = "present", !.name = <<"a">>]
            ELSE NoRes]

InitRelease ==
    /\ variant = "tx"
    /\ request = RequestOff /\ PagesUnopened
    /\ FullVehicle
    /\ call = [k \in Calls |-> IdleCall]
    /\ del = [v \in Vehicles |-> IdleDel]
    /\ NoVehiculos
    /\ dbReservas = [r \in AppResIds |-> NoReserva]
    /\ ui = [p \in Clients |-> InitialUi]

SpecRelease == InitRelease /\ [][NextTx]_vars

(***************************************************************************)
(* Claims about the transactional variant (part_000).                      *)
(***************************************************************************)
LiveVehicles == {v \in Vehicles : vehicles[v].state = "live"}

\* call k takes its TxGetDocs step (reads the reservations and decides)
ReadsReservations(k) == call[k].pc = "getDocs" /\ call'[k] # call[k]

\* call k takes its TxCommit step
CommitStep(k) == call[k].pc = "commit" /\ call'[k] # call[k]

\* the TxCommit step of call k inserts one reservation, under the call's
\* vehicle and with the claimant's trimmed name, and writes nothing else
InsertsOne(k) ==
    /\ call'[k].pc = "done"
    /\ call'[k].result = "ok"
    /\ resDocs[k].state = "none"
    /\ resDocs'[k] = [state |-> "present", vehicle |-> call[k].vehicle,
                      name |-> Trim(call[k].name)]
    /\ \A r \in ResIds \ {k} : resDocs'[r] = resDocs[r]

\* C1: the number of committed reservations under a vehicle never exceeds
\* its seatsTotal, whatever the interleaving of reserveSeat calls.
C1_NoOverbooking ==
    \A v \in LiveVehicles :
        Cardinality(ReservationsOf(v)) <= vehicles[v].seatsTotal

\* C2: a vehicle with seatsTotal = 2 holds one reservation, nobody released a
\* seat, and two distinct claimants without a seat have both finished their
\* reserveSeat: exactly one of them committed and the other was told Full.
C2_ExactlyOneWins ==
    \A v \in LiveVehicles : \A j, k \in Calls :
        ( /\ j # k
          /\ vehicles[v].seatsTotal = 2
          /\ call[j].pc = "done" /\ call[j].vehicle = v
          /\ call[k].pc = "done" /\ call[k].vehicle = v
          /\ ~SameIdentity(Trim(call[j].name), call[k].name)
          /\ \A r \in ResIds : resDocs[r].state # "deleted"
          /\ \E r \in ReservationsOf(v) \ {j, k} :
                /\ ReservationsOf(v) \ {j, k} = {r}
                /\ ~SameIdentity(resDocs[r].name, call[j].name)
                /\ ~SameIdentity(resDocs[r].name, call[k].name) )
        => {call[j].result, call[k].result} = {"ok", "Full"}

\* C3: a reserveSeat transaction never commits on a stale read: when its
\* commit is accepted, the reservations of the vehicle are those it read.
C3_NoStaleCommit ==
    [][\A k \in Calls :
        (CommitStep(k) /\ call'[k].result = "ok")
        => call[k].resSnap = ReservationsOf(call[k].vehicle)]_vars

\* C5: a vehicle never holds two reservations whose names are equal ignoring
\* case.
C5_OneSeatPerName ==
    \A r1, r2 \in ResIds :
        ( /\ r1 # r2
          /\ resDocs[r1].state = "present" /\ resDocs[r2].state = "present"
          /\ resDocs[r1].vehicle = resDocs[r2].vehicle )
        => ToLower(resDocs[r1].name) # ToLower(resDocs[r2].name)

\* C8: once the owner's deleteMyVehicle has completed, no reservation
\* document exists under that vehicle.
C8_NoReservationOutlivesVehicle ==
    \A v \in Vehicles : del[v].pc = "done" => ReservationsOf(v) = {}

\* the reservations that call k reads hold one with the claimant's name
ReadsOwnName(k) ==
    /\ ReadsReservations(k)
    /\ \E d \in ReservationsOf(call[k].vehicle) :
          SameIdentity(resDocs[d].name, call[k].name)

DecidesOnRead(k) ==
    /\ ( ReadsReservations(k)
         /\ Cardinality(ReservationsOf(call[k].vehicle)) >= call[k].vSeats )
       => /\ call'[k].pc = "done"
          /\ call'[k].result = "Full"
          /\ resDocs' = resDocs
    /\ ( ReadsReservations(k)
         /\ Cardinality(ReservationsOf(call[k].vehicle)) < call[k].vSeats
         /\ \A d \in ReservationsOf(call[k].vehicle) :
                ~SameIdentity(resDocs[d].name, call[k].name) )
       => /\ call'[k].pc = "commit"
          /\ resDocs' = resDocs

\* C10 as claimed: a call that reads at least seatsTotal reservations fails
\* with Full and inserts nothing; a call that reads fewer, none of them the
\* claimant's, inserts exactly one reservation with the claimant's trimmed
\* name.
C10_FullOrExactlyOneInsert ==
    [][\A k \in Calls :
        /\ DecidesOnRead(k)
        /\ CommitStep(k) => InsertsOne(k)]_vars

\* C10 as amended: the second call inserts exactly one reservation when the
\* vehicle still exists at the commit; when the vehicle has been deleted
\* since it was read, the call writes nothing and runs again from tx.get.
C10_FullOrInsertUnlessVehicleDeleted ==
    [][\A k \in Calls :
        /\ DecidesOnRead(k)
        /\ CommitStep(k) =>
              IF vehicles[call[k].vehicle].state = "live"
              THEN InsertsOne(k)
              ELSE /\ resDocs' = resDocs
                   /\ call'[k].pc = "get"
                   /\ call'[k].result = "none"]_vars

\* one call has inserted a reservation under its trimmed name, another one
\* lost its commit to the deletion of the vehicle and ended with NotFound
C10_Witness ==
    /\ \E k \in Calls :
          /\ call[k].result = "ok"
          /\ call[k].name # Trim(call[k].name)
          /\ resDocs[k].state # "none"
          /\ resDocs[k].name = Trim(call[k].name)
    /\ \E k \in Calls :
          /\ call[k].result = "NotFound"
          /\ call[k].attempts = 2

\* call k runs tx.get(vehicleDoc): in the step that invokes reserveSeat with
\* a name, or in the first step of a later attempt
ReadsVehicle(k) ==
    \/ call[k].pc = "idle" /\ call'[k].pc # "idle"
    \/ call[k].pc = "get" /\ call'[k] # call[k]

\* C11: a reserveSeat whose tx.get finds no vehicle document ends with
\* NotFound and inserts nothing; when the vehicle is deleted after tx.get
\* and before the commit, the commit writes nothing and the transaction runs
\* again from tx.get (where it finds no vehicle); a call that ended with
\* NotFound has inserted no reservation.
C11_NotFoundInsertsNothing ==
    [][\A k \in Calls :
        /\ (ReadsVehicle(k) /\ vehicles[call'[k].vehicle].state # "live")
           => /\ call'[k].pc = "done"
              /\ call'[k].result = "NotFound"
              /\ resDocs' = resDocs
        /\ (CommitStep(k) /\ vehicles[call[k].vehicle].state # "live")
           => /\ call'[k].pc = "get"
              /\ resDocs' = resDocs
        /\ call'[k].result = "NotFound" => resDocs'[k].state = "none"]_vars

\* a call was told NotFound on its second attempt: the vehicle was deleted
\* between its tx.get and its commit
C11_Witness ==
    \E k \in Calls :
        /\ call[k].result = "NotFound"
        /\ call[k].attempts = 2
        /\ vehicles[call[k].vehicle].state = "deleted"
        /\ resDocs[k].state = "none"

(***************************************************************************)
(* Claims about the confirmation-dialog variant (App.jsx).                 *)
(***************************************************************************)
\* the reservations in the store that reference vehicle v
ReservasDe(v) ==
    {r \in AppResIds : dbReservas[r].state = "present" /\ dbReservas[r].vehiculoId = v}

\* C4: the insert of a confirmed reservation does not depend on what the
\* store holds: whenever a client's confirmarReservarAsiento or
\* confirmarReservarMicrobus is waiting for its addDoc, the insert can happen
\* (as long as the model has a document id left).
C4_InsertWhateverTheStoreHolds ==
    \A p \in Clients :
        (ui[p].isLoading /\ FreshIds # {})
        => /\ ui[p].inflight.accion = "reservarAsiento"
                => ENABLED confirmarReservarAsiento(p)
           /\ ui[p].inflight.accion = "reservarMicrobus"
                => ENABLED confirmarReservarMicrobus(p)

\* two clients of different names have both inserted for the last seat: the
\* store holds more reservations for the vehicle than its asientosDisponibles
C4_Witness ==
    \E v \in Vehicles : \E r1, r2 \in ReservasDe(v) :
        /\ dbVehiculos[v].asientosDisponibles = 1
        /\ ToLower(dbReservas[r1].pasajero) # ToLower(dbReservas[r2].pasajero)
        /\ Cardinality(ReservasDe(v)) > dbVehiculos[v].asientosDisponibles

\* C6: reservas and reservasMicrobus each hold at most one reservation per
\* vehiculoId and pasajero, the names compared ignoring case.
C6_OneReservaPerPasajero ==
    \A r1, r2 \in AppResIds :
        ( /\ r1 # r2
          /\ dbReservas[r1].state = "present" /\ dbReservas[r2].state = "present"
          /\ dbReservas[r1].coll = dbReservas[r2].coll
          /\ dbReservas[r1].vehiculoId = dbReservas[r2].vehiculoId )
        => ToLower(dbReservas[r1].pasajero) # ToLower(dbReservas[r2].pasajero)

(***************************************************************************)
(* Claims about the cancel and delete handlers of both variants.           *)
(***************************************************************************)
Stores == <<vehicles, resDocs, del, dbVehiculos, dbReservas>>

\* the name a request is compared with: the reservation's claimant, or the
\* vehicle's owner
TargetName(q) ==
    CASE q.op = "cancelMySeat" -> resDocs[q.reservation].name
      [] q.op = "deleteMyVehicle" -> vehicles[q.vehicle].ownerName
      [] OTHER -> dbReservas[q.reservation].pasajero

\* the requester's trimmed name differs, ignoring case, from that name
NamesDiffer(q) == ToLower(TargetName(q)) # ToLower(Trim(q.name))

\* this step answers a request whose names differ
AnswersStranger == request' # request /\ NamesDiffer(request')

\* every document that this step deletes, and every deleteMyVehicle that it
\* starts, was asked for by a requester whose name matches
DeletesOnlyForOwner ==
    /\ \A r \in ResIds :
          (resDocs[r].state = "present" /\ resDocs'[r].state = "deleted")
          => \/ r \in del[resDocs[r].vehicle].pending
             \/ /\ request'.op = "cancelMySeat"
                /\ request'.reservation = r
                /\ ~NamesDiffer(request')
    /\ \A v \in Vehicles :
          /\ (del[v].pc # "deleting" /\ del'[v].pc = "deleting")
             => /\ request'.op = "deleteMyVehicle"
                /\ request'.vehicle = v
                /\ ~NamesDiffer(request')
          /\ vehicles'[v] # vehicles[v] => del[v].pc = "deleting"
    /\ \A r \in AppResIds :
          dbReservas'[r] # dbReservas[r]
          => /\ request'.op \in {"handleCancelarReserva", "handleCancelarReservaMicrobus"}
             /\ request'.reservation = r
             /\ ~NamesDiffer(request')

\* C7 as claimed: a request whose names differ is rejected as not authorized
\* and leaves the store as it was, no delete issued.
C7_StrangerNotAuthorized ==
    [][AnswersStranger
        => /\ request'.outcome = "NotAuthorized"
           /\ UNCHANGED Stores]_vars

\* C7 as amended: a request whose names differ is rejected and leaves the
\* store as it was, no delete issued; the rejection is not authorized, except
\* that cancelMySeat with a blank name asks for the name instead; and nothing
\* is deleted but for a requester whose name matches.
C7_StrangerRejected ==
    [][/\ AnswersStranger
          => /\ request'.outcome =
                  IF request'.op = "cancelMySeat" /\ Trim(request'.name) = NoName
                  THEN "NameRequired" ELSE "NotAuthorized"
             /\ UNCHANGED Stores
       /\ DeletesOnlyForOwner]_vars

\* a non-owner has asked to delete a vehicle: it is still there, no delete in
\* flight, with its reservations
C7_Witness ==
    /\ request.op = "deleteMyVehicle"
    /\ request.outcome = "NotAuthorized"
    /\ Trim(request.name) # NoName
    /\ vehicles[request.vehicle].state = "live"
    /\ del[request.vehicle].pc = "idle"
    /\ Cardinality(ReservationsOf(request.vehicle)) = 2


\* C12: once the owner's deleteMyVehicle has completed on a vehicle, a
\* cancelMySeat by the claimant of one of its reservations, whose document
\* the deletion has removed, is answered with NotFound.
C12_CancelAfterDeleteNotFound ==
    [][\A r \in ResIds :
        ( /\ request' # request
          /\ request'.op = "cancelMySeat"
          /\ request'.reservation = r
          /\ SameIdentity(resDocs[r].name, request'.name)
          /\ resDocs[r].state = "deleted"
          /\ del[resDocs[r].vehicle].pc = "done"
          /\ vehicles[resDocs[r].vehicle].state = "deleted" )
        => request'.outcome = "NotFound"]_vars


\* the number of reservation documents present under vehicle v
Committed(v) ==
    Cardinality({r \in ResIds : resDocs[r].state = "present" /\ resDocs[r].vehicle = v})

\* a seat of the vehicle of call k has been released, leaving one seat free;
\* the claimant of call k holds no seat there and an earlier call of theirs
\* was answered Full; no other reserveSeat and no deleteMyVehicle is in
\* flight on the vehicle
ClaimsReleasedSeat(k) ==
    LET v == call[k].vehicle IN
    /\ vehicles[v].state = "live"
    /\ del[v].pc = "idle"
    /\ \E r \in ResIds : resDocs[r].state = "deleted" /\ resDocs[r].vehicle = v
    /\ Committed(v) = vehicles[v].seatsTotal - 1
    /\ \A r \in ResIds :
          (resDocs[r].state = "present" /\ resDocs[r].vehicle = v)
          => ~SameIdentity(resDocs[r].name, call'[k].name)
    /\ \E j \in Calls \ {k} :
          /\ call[j].pc = "done" /\ call[j].result = "Full" /\ call[j].vehicle = v
          /\ SameIdentity(Trim(call[j].name), call'[k].name)
    /\ \A j \in Calls \ {k} : call[j].pc \in {"idle", "done"}

\* C13: a cancelMySeat has released a seat of a vehicle that was full; a
\* reserveSeat of a claimant who holds no seat there and was answered Full
\* before, running with no other request on the vehicle in between, passes
\* both reads, commits one reservation, is answered ok, and the number of
\* committed reservations is seatsTotal again.
C13_ReleasedSeatCanBeClaimed ==
    [][\A k \in Calls :
        /\ (ReadsVehicle(k) /\ call'[k].vehicle = call[k].vehicle /\ ClaimsReleasedSeat(k))
           => call'[k].pc = "getDocs"
        /\ (ReadsReservations(k) /\ ClaimsReleasedSeat(k))
           => call'[k].pc = "commit"
        /\ (CommitStep(k) /\ ClaimsReleasedSeat(k))
           => /\ InsertsOne(k)
              /\ Cardinality({r \in ResIds : /\ resDocs'[r].state = "present"
                                             /\ resDocs'[r].vehicle = call[k].vehicle})
                 = vehicles[call[k].vehicle].seatsTotal]_vars

\* "b" was answered Full, "a" released the seat, "b" asked again and holds
\* the seat: the vehicle is full again
C13_Witness ==
    \E j, k \in Calls :
        /\ j < k
        /\ call[j].pc = "done" /\ call[j].result = "Full"
        /\ call[k].pc = "done" /\ call[k].result = "ok"
        /\ SameIdentity(Trim(call[j].name), call[k].name)
        /\ resDocs[PriorRes].state = "deleted"
        /\ resDocs[k].state = "present"
        /\ vehicles[call[k].vehicle].state = "live"
        /\ Committed(call[k].vehicle) = vehicles[call[k].vehicle].seatsTotal


(***************************************************************************)
(* part_000: the pages. Each client's page holds the name it signs with    *)
(* and the vehicles list its listener has built; the buttons of a page are *)
(* those its list renders.                                                 *)
(***************************************************************************)
\* the names the two clients have typed
PageNames == [p \in Clients |-> IF p = "p1" THEN <<"a">> ELSE <<"b">>]

\* onSnapshot(query(collection(tourRef, "vehicles"))): the callback runs when
\* the documents of the vehicles collection change (first for the documents
\* found on subscribing); it reads each vehicle's reservations with getDocs
\* and sets the list
SnapshotVehicles(p) ==
    LET listed == {v \in LiveVehicles : vehicles[v].tour = tourRef(p)} IN
    /\ variant \in {"page", "create"}
    /\ page[p].vehicles # listed
    /\ page' = [page EXCEPT ![p].vehicles = listed,
                            ![p].reservations =
                                UNION {ReservationsAt(tourRef(p), v) : v \in listed}]
    /\ UNCHANGED <<variant, txVars, appVars, request, failed, tourVars, screen>>

\* const taken = v.reservations?.length; const free = Math.max(total - taken, 0)
Taken(p, v) == Cardinality({r \in page[p].reservations : resDocs[r].vehicle = v})
Free(p, v) ==
    IF vehicles[v].seatsTotal - Taken(p, v) > 0
    THEN vehicles[v].seatsTotal - Taken(p, v) ELSE 0

\* name.trim() && x?.toLowerCase() === name.trim().toLowerCase()
IsMine(p, stored) ==
    /\ Trim(page[p].name) # << >>
    /\ ToLower(stored) = ToLower(Trim(page[p].name))

\* the "Apartar asiento" button of a listed vehicle, disabled={free === 0}
ApartarAsiento(p, k, v) ==
    /\ v \in page[p].vehicles
    /\ Free(p, v) # 0
    /\ reserveSeat(k, page[p].name, v)

\* the "Cancelar" button, rendered beside the listed reservations that carry
\* the page's name
Cancelar(p, r) ==
    /\ r \in page[p].reservations
    /\ resDocs[r].vehicle \in page[p].vehicles
    /\ IsMine(p, resDocs[r].name)
    /\ cancelMySeat(r, page[p].name)

\* the "Eliminar vehículo" button, rendered for the owner; the confirm()
\* dialog is accepted
EliminarVehiculo(p, v) ==
    /\ v \in page[p].vehicles
    /\ IsMine(p, vehicles[v].ownerName)
    /\ deleteMyVehicle(v, page[p].name)

NextPage ==
    \/ \E p \in Clients : SnapshotVehicles(p)
    \/ \E p \in Clients, k \in Calls, v \in Vehicles : ApartarAsiento(p, k, v)
    \/ \E k \in Calls : TxGet(k)
    \/ \E k \in Calls : TxGetDocs(k)
    \/ \E k \in Calls : TxCommit(k)
    \/ \E p \in Clients, r \in ResIds : Cancelar(p, r)
    \/ \E p \in Clients, v \in Vehicles : EliminarVehiculo(p, v)
    \/ \E v \in Vehicles, r \in ResIds : DeleteReservation(v, r)
    \/ \E v \in Vehicles : DeleteVehicle(v)

\* the store the pages find: the vehicle of "A" with two seats, both free or
\* one of them reserved by "b" on an earlier visit
StoreOfEarlierVisit ==
    \E taken \in BOOLEAN :
        /\ vehicles = [v \in Vehicles |->
                [state |-> "live", tour |-> DEFAULT_TOUR_ID, ownerName |-> <<"A">>,
                 seatsTotal |-> 2]]
        /\ resDocs = [r \in ResIds |->
                IF r = PriorRes /\ taken
                THEN [NoRes EXCEPT !.state = "present", !.name = PageNames["p2"]]
                ELSE NoRes]

InitPage ==
    /\ variant = "page"
    /\ request = RequestOff
    /\ StoreOfEarlierVisit
    /\ call = [k \in Calls |-> IdleCall]
    /\ del = [v \in Vehicles |-> IdleDel]
    /\ NoVehiculos
    /\ dbReservas = [r \in AppResIds |-> NoReserva]
    /\ ui = [p \in Clients |-> InitialUi]
    /\ page = [p \in Clients |-> [InitialPage EXCEPT !.name = PageNames[p]]]
    /\ OneTour

\* the store delivers each snapshot and answers each request it was sent;
\* nothing obliges a user to click
FairPage ==
    /\ \A p \in Clients : WF_vars(SnapshotVehicles(p))
    /\ \A k \in Calls : WF_vars(TxGet(k)) /\ WF_vars(TxGetDocs(k)) /\ WF_vars(TxCommit(k))
    /\ \A v \in Vehicles : WF_vars(DeleteVehicle(v))
    /\ \A v \in Vehicles, r \in ResIds : WF_vars(DeleteReservation(v, r))

SpecPage == InitPage /\ [][NextPage]_vars /\ FairPage

\* the list of p shows every vehicle of the store with the reservations that
\* are committed under it
InSync(p) ==
    /\ page[p].vehicles = LiveVehicles
    /\ \A v \in LiveVehicles :
          {r \in page[p].reservations : resDocs[r].vehicle = v} = ReservationsOf(v)

\* C14: after the last change to the store, the list of every client comes
\* to show, for each vehicle, the reservations committed under it, and stays
\* so (part_000, the vehicles listener).
C14_ViewsCatchUp == \A p \in Clients : <>[]InSync(p)


\* the reserveSeat calls of the page of p that have been submitted and not
\* yet answered
Outstanding(p) ==
    {k \in Calls : call[k].pc \in {"get", "getDocs", "commit"}
                   /\ call[k].name = page[p].name}

\* C15: a client never has two reserveSeat submissions outstanding at the
\* same time (part_000).
C15_OneSubmissionOutstanding ==
    \A p \in Clients : Cardinality(Outstanding(p)) <= 1


\* C16: once the error callback of a client's vehiculos or microbus listener
\* has run, the client shows no list from that listener and its indicator
\* does not say 'Conectado a Firebase' (App.jsx).
C16_FailedViewUnavailable ==
    \A p \in Clients :
        /\ "vehiculos" \in failed[p] => (ui[p].vehiculos = {} /\ ~Conectado(p))
        /\ "microbus" \in failed[p] => (ui[p].microbuses = {} /\ ~Conectado(p))


\* C17: every vehicle document has an owner name that is not empty and is
\* trimmed, and a seat total in 1..50 (vehicles of part_000, vehiculos of
\* App.jsx); every vehiculos document has one of the listed meeting points.
C17_VehicleDocumentsValid ==
    /\ \A v \in Vehicles : vehicles[v].state # "none" =>
          /\ vehicles[v].ownerName # << >>
          /\ vehicles[v].ownerName = Trim(vehicles[v].ownerName)
          /\ vehicles[v].seatsTotal >= 1 /\ vehicles[v].seatsTotal <= 50
    /\ \A v \in Vehicles : dbVehiculos[v].state # "none" =>
          /\ dbVehiculos[v].propietario # << >>
          /\ dbVehiculos[v].propietario = Trim(dbVehiculos[v].propietario)
          /\ dbVehiculos[v].asientosDisponibles >= 1
          /\ dbVehiculos[v].asientosDisponibles <= 50
          /\ dbVehiculos[v].puntoEncuentro \in PuntosDeEncuentro


(***************************************************************************)
(* part_000: the tours. A page is opened with a tour id and builds every   *)
(* path from tourRef; the payment and bus sections sign with the page's    *)
(* name.                                                                   *)
(***************************************************************************)
\* the number of payment and bus-signup documents a behaviour writes
MaxMarkers == 2

RECURSIVE Total(_, _)
Total(f, S) ==
    IF S = {} THEN 0
    ELSE LET x == CHOOSE y \in S : TRUE IN f[x] + Total(f, S \ {x})

\* the marker documents written so far; addDoc gives the next one a new id
MarkersWritten ==
    Total([tc \in Tours \X Collections |-> Len(markers[tc[1]][tc[2]])],
          Tours \X Collections)
NewMarkerId == MarkersWritten + 1

\* addDoc(collection(ref, c), {name: n.trim(), createdAt}): the collection
\* c of tour t with the new document at its end
AddDoc(t, c, n) ==
    [markers EXCEPT ![t][c] = Append(@, [id |-> NewMarkerId, name |-> Trim(n)])]

\* the alert of requireName
NameRequired(p) == [page EXCEPT ![p].alert = "NameRequired"]

\* handlePayment as it would be if it refused a name already in the list
handlePaymentOnce(p) ==
    /\ variant = "create"
    /\ MarkersWritten < MaxMarkers
    /\ IF ~requireName(page[p].name)
       THEN page' = NameRequired(p) /\ UNCHANGED markers
       ELSE IF \E i \in 1..Len(markers[tourRef(p)]["payments"]) :
                  SameIdentity(markers[tourRef(p)]["payments"][i].name, page[p].name)
       THEN page' = [page EXCEPT ![p].alert = "AlreadySigned"] /\ UNCHANGED markers
       ELSE markers' = AddDoc(tourRef(p), "payments", page[p].name) /\ UNCHANGED page
    /\ UNCHANGED <<variant, txVars, appVars, request, failed, tourId, screen>>

\* if (!requireName()) return; await addDoc(collection(tourRef, "payments"), ...)
handlePayment(p) ==
    /\ variant = "create"
    /\ MarkersWritten < MaxMarkers
    /\ IF requireName(page[p].name)
       THEN markers' = AddDoc(tourRef(p), "payments", page[p].name) /\ UNCHANGED page
       ELSE page' = NameRequired(p) /\ UNCHANGED markers
    /\ UNCHANGED <<variant, txVars, appVars, request, failed, tourId, screen>>

\* if (!requireName()) return; await addDoc(collection(tourRef, "busSignups"), ...)
handleJoinBus(p) ==
    /\ variant = "create"
    /\ MarkersWritten < MaxMarkers
    /\ IF requireName(page[p].name)
       THEN markers' = AddDoc(tourRef(p), "busSignups", page[p].name) /\ UNCHANGED page
       ELSE page' = NameRequired(p) /\ UNCHANGED markers
    /\ UNCHANGED <<variant, txVars, appVars, request, failed, tourId, screen>>

\* onSnapshot(query(collection(tourRef, "payments"))): setPayments(snap.docs)
SnapshotPayments(p) ==
    /\ variant = "create"
    /\ page[p].payments # markers[tourRef(p)]["payments"]
    /\ page' = [page EXCEPT ![p].payments = markers[tourRef(p)]["payments"]]
    /\ UNCHANGED <<variant, txVars, appVars, request, failed, tourVars, screen>>

\* onSnapshot(query(collection(tourRef, "busSignups"))): setBusSignups(snap.docs)
SnapshotBusSignups(p) ==
    /\ variant = "create"
    /\ page[p].busSignups # markers[tourRef(p)]["busSignups"]
    /\ page' = [page EXCEPT ![p].busSignups = markers[tourRef(p)]["busSignups"]]
    /\ UNCHANGED <<variant, txVars, appVars, request, failed, tourVars, screen>>

\* the vehicle form of the page of p is submitted
handleCreateVehicleBy(p, v, seats) ==
    handleCreateVehicleIn(tourRef(p), v, page[p].name, seats)

NextForms ==
    \/ \E p \in Clients : handlePayment(p)
    \/ \E p \in Clients : handleJoinBus(p)
    \/ \E p \in Clients, v \in Vehicles, s \in SeatInputs : handleCreateVehicleBy(p, v, s)
    \/ \E p \in Clients : SnapshotPayments(p)
    \/ \E p \in Clients : SnapshotBusSignups(p)
    \/ \E p \in Clients : SnapshotVehicles(p)

\* the names typed: p1 signs "A " and p2 nothing but a space, "a" or "b"
FormNames ==
    { [p \in Clients |-> IF p = "p1" THEN <<"A", " ">> ELSE n] :
        n \in {<<" ">>, <<"a">>, <<"b">>} }

\* p1 has opened the page without ?tour=, p2 with any tour id
TourIds == { [p \in Clients |-> IF p = "p1" THEN DEFAULT_TOUR_ID ELSE t] : t \in Tours }

InitForms ==
    /\ variant = "create"
    /\ request = RequestOff
    /\ EmptyStore
    /\ call = [k \in Calls |-> IdleCall]
    /\ del = [v \in Vehicles |-> IdleDel]
    /\ NoVehiculos
    /\ dbReservas = [r \in AppResIds |-> NoReserva]
    /\ ui = [p \in Clients |-> InitialUi]
    /\ \E names \in FormNames :
          page = [p \in Clients |-> [InitialPage EXCEPT !.name = names[p]]]
    /\ failed = [p \in Clients |-> {}]
    /\ screen = ScreenOff
    /\ tourId \in TourIds
    /\ markers = NoMarkers

SpecForms == InitForms /\ [][NextForms]_vars


(***************************************************************************)
(* part_000 with two tours: the forms as above, or the vehicles section    *)
(* over a vehicle that lives under one of the tours, its handlers called   *)
(* from a page with any vehicle or reservation id.                         *)
(***************************************************************************)
reserveSeatBy(p, k, v) == reserveSeatIn(tourRef(p), k, page[p].name, v)

cancelMySeatBy(p, r) == cancelMySeatIn(tourRef(p), r, page[p].name)

deleteMyVehicleBy(p, v) == deleteMyVehicleIn(tourRef(p), v, page[p].name)

NextVehicles ==
    \/ \E p \in Clients : SnapshotVehicles(p)
    \/ \E p \in Clients, k \in Calls, v \in Vehicles : reserveSeatBy(p, k, v)
    \/ \E k \in Calls : TxGet(k)
    \/ \E k \in Calls : TxGetDocs(k)
    \/ \E k \in Calls : TxCommit(k)
    \/ \E p \in Clients, r \in ResIds : cancelMySeatBy(p, r)
    \/ \E p \in Clients, v \in Vehicles : deleteMyVehicleBy(p, v)
    \/ \E v \in Vehicles, r \in ResIds : DeleteReservation(v, r)
    \/ \E v \in Vehicles : DeleteVehicle(v)

\* the vehicle of "A" under one of the tours, with two seats, one of them
\* reserved by "b"
VehicleUnderATour ==
    \E t \in Tours :
        /\ vehicles = [v \in Vehicles |->
                [state |-> "live", tour |-> t, ownerName |-> <<"A">>, seatsTotal |-> 2]]
        /\ resDocs = [r \in ResIds |->
                IF r = PriorRes
                THEN [NoRes EXCEPT !.state = "present", !.name = PageNames["p2"]]
                ELSE NoRes]

InitVehicles ==
    /\ variant = "page"
    /\ request = RequestOff
    /\ VehicleUnderATour
    /\ call = [k \in Calls |-> IdleCall]
    /\ del = [v \in Vehicles |-> IdleDel]
    /\ NoVehiculos
    /\ dbReservas = [r \in AppResIds |-> NoReserva]
    /\ ui = [p \in Clients |-> InitialUi]
    /\ page = [p \in Clients |-> [InitialPage EXCEPT !.name = PageNames[p]]]
    /\ failed = [p \in Clients |-> {}]
    /\ screen = ScreenOff
    /\ tourId \in TourIds
    \* some page is opened under a tour other than the vehicle's
    /\ \E p \in Clients, v \in Vehicles : tourId[p] # vehicles[v].tour
    /\ markers = NoMarkers

SpecTours == (InitForms \/ InitVehicles) /\ [][NextForms \/ NextVehicles]_vars

(***************************************************************************)
(* Every handler of the two variants that writes a name: the sessions of   *)
(* part_000 and of App.jsx, module 1 of App.jsx, the forms of part_000.    *)
(***************************************************************************)
InitWrites == Init \/ InitOffer \/ InitForms

NextWrites == Next \/ NextOffer \/ NextForms

SpecWrites == InitWrites /\ [][NextWrites]_vars

\* the names held by the documents of the store
StoredNames ==
    {vehicles[v].ownerName : v \in {w \in Vehicles : vehicles[w].state # "none"}}
    \cup {resDocs[r].name : r \in {q \in ResIds : resDocs[q].state # "none"}}
    \cup UNION {{markers[t][c][i].name : i \in 1..Len(markers[t][c])} :
                   <<t, c>> \in Tours \X Collections}
    \cup {dbVehiculos[v].propietario : v \in {w \in Vehicles : dbVehiculos[w].state # "none"}}
    \cup {dbReservas[r].pasajero : r \in {q \in AppResIds : dbReservas[q].state # "none"}}

\* C18: no payment, bus signup, vehicle or reservation document holds a name
\* that is empty, and every stored name is its own trimmed form; so a handler
\* called with a blank name field, which could only store the empty name,
\* has written nothing.
C18_StoredNamesSigned ==
    \A n \in StoredNames : n # << >> /\ n = Trim(n)

\* p2 asked to sign with a blank name field, was shown the alert and nothing
\* of theirs was written; p1 typed "A " and was recorded as "A"
C18_Witness ==
    /\ Trim(page["p2"].name) = << >>
    /\ page["p2"].alert = "NameRequired"
    /\ page["p1"].name # Trim(page["p1"].name)
    /\ StoredNames = {Trim(page["p1"].name)}
    /\ MarkersWritten = MaxMarkers


\* the step adds one document, signed with the trimmed name of p, at the end
\* of collection c of the tour of p, and changes no other marker document
AppendsOne(p, c) ==
    /\ requireName(page[p].name)
    /\ markers' = [markers EXCEPT ![tourId[p]][c] =
            Append(@, [id |-> MarkersWritten + 1, name |-> Trim(page[p].name)])]

\* C19: the payment and bus-signup documents only ever change by one new
\* document being added, signed by a page whose name is not blank, whatever
\* the collection already holds (no update, no removal); and the only answer
\* of handlePayment and handleJoinBus other than adding the document is the
\* alert for a blank name (no limit, no admission or duplicate check).
C19_MarkersAppendOnly ==
    [][/\ markers' # markers
          => \E p \in Clients, c \in Collections : AppendsOne(p, c)
       /\ \A p \in Clients :
            page'[p].alert # page[p].alert
            => /\ ~requireName(page[p].name)
               /\ page'[p].alert = "NameRequired"
               /\ markers' = markers]_vars

\* the same name has been recorded twice in the payments of a tour
C19_Witness ==
    \E t \in Tours :
        /\ Len(markers[t]["payments"]) = 2
        /\ markers[t]["payments"][1].name = markers[t]["payments"][2].name
        /\ markers[t]["payments"][1].id # markers[t]["payments"][2].id

(***************************************************************************)
(* Claims about the tours of part_000.                                     *)
(***************************************************************************)
\* the pages opened under tour t
ClientsOf(t) == {p \in Clients : tourId[p] = t}

\* every document a page lists is a document of the page's own tour
ViewsOwnTour(p) ==
    /\ \A c \in Collections : \A i \in 1..Len(page[p][c]) :
            \E j \in 1..Len(markers[tourId[p]][c]) :
                markers[tourId[p]][c][j] = page[p][c][i]
    /\ \A v \in page[p].vehicles : vehicles[v].tour = tourId[p]
    /\ \A r \in page[p].reservations : vehicles[resDocs[r].vehicle].tour = tourId[p]

\* the step changes a vehicle document of tour t
VehicleChanges(t, v) == vehicles'[v] # vehicles[v] /\ vehicles'[v].tour = t

\* the step changes a reservation document of tour t
ReservationChanges(t, r) ==
    resDocs'[r] # resDocs[r] /\ vehicles[resDocs'[r].vehicle].tour = t

\* C20: what a client of tour T reads and writes lies under tours/T. Each
\* page lists only payments, bus signups, vehicles and reservations of its
\* own tour; a reserveSeat that names a vehicle of another tour ends with
\* "not found"; and every change to a payment, bus signup, vehicle or
\* reservation of a tour is made by a page opened under that tour (the
\* signer, the creator, the reserver, the canceller or the deleting owner),
\* so the documents of a tour no page is opened under never change.
C20_ToursAreSeparate ==
    /\ [](\A p \in Clients : ViewsOwnTour(p))
    /\ [](\A k \in Calls :
            /\ call[k].pc = "done"
            /\ vehicles[call[k].vehicle].tour # call[k].tour
            => call[k].result = "NotFound")
    /\ [][\A t \in Tours :
            /\ markers'[t] # markers[t]
               => \E p \in ClientsOf(t), c \in Collections : AppendsOne(p, c)
            /\ \A v \in Vehicles :
                 VehicleChanges(t, v)
                 => \E p \in ClientsOf(t) :
                      IF vehicles[v].state = "none"
                      THEN vehicles'[v].ownerName = Trim(page[p].name)
                      ELSE MayDelete(vehicles[v].ownerName, page[p].name)
            /\ \A r \in ResIds :
                 ReservationChanges(t, r)
                 => \E p \in ClientsOf(t) :
                      IF resDocs[r].state = "none"
                      THEN resDocs'[r].name = Trim(page[p].name)
                      ELSE \/ SameIdentity(resDocs[r].name, page[p].name)
                           \/ MayDelete(vehicles[resDocs[r].vehicle].ownerName,
                                        page[p].name)]_vars

\* the vehicle lives under a tour other than the first page's; the first
\* page has asked for a seat in it, for the removal of its reservation and
\* for its deletion, and the vehicle and its reservation are still there,
\* while the page of the vehicle's tour has reserved a seat in it
C20_Witness ==
    \E k, j \in Calls, v \in Vehicles :
        /\ vehicles[v].state = "live"
        /\ vehicles[v].tour # tourId["p1"]
        /\ vehicles[v].tour = tourId["p2"]
        /\ call[k].name = page["p1"].name
        /\ call[k].vehicle = v
        /\ call[k].result = "NotFound"
        /\ del[v].pc = "done"
        /\ resDocs[j].state = "present"
        /\ resDocs[j].vehicle = v
        /\ call[j].result = "ok"
        /\ page["p2"].vehicles = {v}
        /\ page["p1"].vehicles = {}

(***************************************************************************)
(* App.jsx with the screen of each client followed: the module that is     *)
(* open, the fields of the form of module 1, the success dialog and the    *)
(* alerts, in the offer and claim flows. The first user has filled the     *)
(* form in, the second one has not.                                        *)
(***************************************************************************)
FilledForms ==
    { [p \in Clients |->
          IF p = "p1"
          THEN [InitialScreen EXCEPT !.asientosDisponibles = f, !.puntoEncuentro = pt,
                                     !.tipoVehiculo = t]
          ELSE InitialScreen] :
      f \in AsientosFields, pt \in PuntoInputs, t \in TipoInputs }

InitScreen ==
    /\ request = RequestOff
    /\ page = [p \in Clients |-> InitialPage]
    /\ failed = [p \in Clients |-> {}]
    /\ tourId = [p \in Clients |-> DEFAULT_TOUR_ID]
    /\ markers = NoMarkers
    /\ EmptyStore /\ call = [k \in Calls |-> IdleCall] /\ del = [v \in Vehicles |-> IdleDel]
    /\ dbReservas = [r \in AppResIds |-> NoReserva]
    /\ \/ /\ variant = "offer"
          /\ NoVehiculos
          /\ \E names \in TypedNames :
                ui = [p \in Clients |-> [InitialUi EXCEPT !.nombreUsuario = names[p]]]
          /\ screen \in FilledForms
       \/ /\ variant = "app"
          /\ PriorVehiculo
          /\ \E names \in TypedNames :
                ui = [p \in Clients |->
                        [InitialUi EXCEPT
                            !.nombreUsuario = names[p],
                            !.isLoadingList = FALSE,
                            !.vehiculos = LiveVehiculos,
                            !.microbuses = Rentas]]
          /\ screen = [p \in Clients |-> InitialScreen]

NextScreen ==
    \/ NextOffer
    \/ \E p \in Clients : SnapshotReservas(p)
    \/ \E p \in Clients : SnapshotReservasMicrobus(p)
    \/ \E p \in Clients, v \in Vehicles : handleReservarAsiento(p, v)
    \/ \E p \in Clients, v \in Vehicles : handleReservarMicrobus(p, v)
    \/ \E p \in Clients : confirmarReservarAsiento(p)
    \/ \E p \in Clients : confirmarReservarMicrobus(p)
    \/ \E p \in Clients, m \in {"null", "ofrecer", "reservar", "microbus"} :
          setActiveModule(p, m)
    \/ \E p \in Clients : handleCerrarExito(p)

SpecScreen == InitScreen /\ [][NextScreen]_vars

(***************************************************************************)
(* Claims about what the user is told.                                     *)
(***************************************************************************)
\* the pages a reserveSeat call was made from
PagesOf(k) == {p \in Clients : page[p].name = call[k].name}

\* C21: every reserveSeat call that has ended without a reservation (vehicle
\* not found, vehicle full, seat already claimed, transaction given up) has
\* been reported on the page it was made from, by an alert that names the
\* rule (part_000).
C21_FailuresReported ==
    \A k \in Calls :
        (call[k].pc = "done" /\ call[k].result # "ok")
        => \E p \in PagesOf(k) : page[p].alert = call[k].result

\* the write that p confirmed is answered in this step
WriteAnswered(p) == ui[p].isLoading /\ ~ui'[p].isLoading

\* the step adds the document of the data p confirmed, and nothing else
WritesConfirmed(p) ==
    LET d == ui[p].inflight IN
    IF d.accion = "ofrecerVehiculo"
    THEN /\ dbReservas' = dbReservas
         /\ \E v \in Vehicles :
               /\ dbVehiculos[v].state = "none"
               /\ dbVehiculos' = [dbVehiculos EXCEPT ![v] =
                     [state |-> "live", propietario |-> d.datos.propietario,
                      asientosDisponibles |-> d.datos.asientosDisponibles,
                      puntoEncuentro |-> d.datos.puntoEncuentro,
                      tipoVehiculo |-> d.datos.tipoVehiculo]]
    ELSE /\ dbVehiculos' = dbVehiculos
         /\ \E r \in AppResIds :
               /\ dbReservas[r].state = "none"
               /\ dbReservas' = [dbReservas EXCEPT ![r] =
                     [state |-> "present",
                      coll |-> IF d.accion = "reservarAsiento"
                               THEN "reservas" ELSE "reservasMicrobus",
                      vehiculoId |-> d.datos.vehiculoId,
                      pasajero |-> d.datos.pasajero]]

\* nothing is stored; the user is alerted of the error, the success dialog is
\* not shown, the module and the fields are as they were, and the page can
\* be used again
FailsCleanly(p) ==
    /\ dbVehiculos' = dbVehiculos /\ dbReservas' = dbReservas
    /\ screen'[p] = [screen[p] EXCEPT !.alert = "Error"]
    /\ ~screen'[p].showExito
    /\ ui'[p].nombreUsuario = ui[p].nombreUsuario
    /\ ~ui'[p].isLoading /\ ~ui'[p].showConfirmacion

\* C22: when the write of confirmarOfrecerVehiculo, confirmarReservarAsiento
\* or confirmarReservarMicrobus is answered, either the confirmed document
\* and nothing else is stored, or the write has failed: then no document is
\* stored, the user gets the error alert, the success dialog is not shown,
\* the open module, the name and the form fields keep their values, and
\* isLoading is false with the confirmation dialog closed (App.jsx).
C22_FailedWriteLeavesNoTrace ==
    [][\A p \in Clients :
          WriteAnswered(p) => (WritesConfirmed(p) \/ FailsCleanly(p))]_vars

\* the write of the vehicle the first user offered has failed: no vehicle is
\* stored, the error alert has been shown, module 1 is still open with the
\* form as it was filled in, and the submit button can be pressed again
C22_Witness ==
    /\ variant = "offer"
    /\ LiveVehiculos = {}
    /\ screen["p1"].alert = "Error"
    /\ screen["p1"].activeModule = "ofrecer"
    /\ screen["p1"].puntoEncuentro = "Metrocentro"
    /\ screen["p1"].asientosDisponibles = <<1>>
    /\ ~screen["p1"].showExito
    /\ PageEnabled("p1")
    /\ ENABLED handleOfrecerVehiculo("p1", <<1>>, "Metrocentro", screen["p1"].tipoVehiculo)

(***************************************************************************)
(* The page is loaded again: the component is mounted with its initial     *)
(* state and its effects subscribe the listeners anew. This is the only    *)
(* way a client of either variant subscribes again.                        *)
(***************************************************************************)
\* part_000: the lists are empty again; the name comes back from
\* localStorage. No request of the page is outstanding.
Reload(p) ==
    /\ variant = "page"
    /\ \A k \in Calls : call[k].pc \in {"get", "getDocs", "commit"}
                        => call[k].name # page[p].name
    /\ \A v \in Vehicles : del[v].pc # "deleting"
    /\ page' = [page EXCEPT ![p] = [InitialPage EXCEPT !.name = page[p].name]]
    /\ UNCHANGED <<variant, txVars, appVars, request, failed, tourVars, screen>>

\* App.jsx: every useState value is the initial one again, the name field
\* too, and the listeners are new ones. No write of the page is outstanding.
ReloadApp(p) ==
    /\ variant = "app"
    /\ ~ui[p].isLoading
    /\ ui' = [ui EXCEPT ![p] = InitialUi]
    /\ failed' = [failed EXCEPT ![p] = {}]
    /\ Shows(p, InitialScreen)
    /\ UNCHANGED <<variant, txVars, dbVehiculos, dbReservas, request, page, tourVars>>

NextReload ==
    \/ NextPage
    \/ NextApp
    \/ \E p \in Clients : SnapshotVehiculos(p)
    \/ \E p \in Clients : SnapshotMicrobus(p)
    \/ \E p \in Clients : Reload(p)
    \/ \E p \in Clients : ReloadApp(p)

InitReload ==
    \/ InitPage
    \/ /\ variant = "app"
       /\ PriorVehiculo /\ InitApp
       /\ EmptyStore /\ call = [k \in Calls |-> IdleCall] /\ del = [v \in Vehicles |-> IdleDel]

SpecReload == InitReload /\ [][NextReload]_vars

\* the lists of the page of p (part_000) and of the client p (App.jsx)
ListsOf(p) ==
    <<page[p].vehicles, page[p].reservations,
      ui[p].vehiculos, ui[p].microbuses, ui[p].reservas, ui[p].reservasMicrobus>>

\* what the queries behind those lists return from the store
StoreLists ==
    <<LiveVehicles, UNION {ReservationsOf(v) : v \in LiveVehicles},
      LiveVehiculos, Rentas, DocsOf("reservas"), DocsOf("reservasMicrobus")>>

Queries == 1..6

\* the lists of a page that has just been loaded
EmptyLists == [q \in Queries |-> {}]

StoreUnchanged ==
    UNCHANGED <<vehicles, resDocs, dbVehiculos, dbReservas>>

\* the client removes a reservation that it lists
OwnDelete(p) ==
    \E r \in AppResIds, a \in BOOLEAN :
        handleCancelarReserva(p, r, a) \/ handleCancelarReservaMicrobus(p, r, a)

NextDelete ==
    \/ NextTx
    \/ \E v \in Vehicles, n \in NameInputs : deleteMyVehicleReadFails(v, n)
    \/ \E v \in Vehicles, r \in ResIds : DeleteReservationFails(v, r)

InitDelete ==
    /\ variant = "tx"
    /\ InitTx
    /\ NoVehiculos /\ Idle([p \in Clients |-> NoName])

SpecDelete == InitDelete /\ [][NextDelete]_vars

\* the step deletes the document of vehicle v
VehicleDeleted(v) == vehicles[v].state = "live" /\ vehicles'[v].state = "deleted"

\* C24: the vehicle document is deleted only by a deleteMyVehicle call none
\* of whose reads and deletes has failed, and only once every reservation
\* the call read has been deleted; after a failed read or a failed
\* reservation delete, the call does not delete the vehicle (part_000).
C24_VehicleDeletedLast ==
    [][\A v \in Vehicles :
          /\ VehicleDeleted(v)
             => /\ del[v].pc = "deleting"
                /\ del[v].pending = {}
                /\ \A r \in del[v].read : resDocs[r].state = "deleted"
          /\ (del[v].pc = "failed" /\ del'[v].pc = "failed")
             => vehicles'[v] = vehicles[v]]_vars

\* the vehicle has been deleted by a call that had read two reservations,
\* and both are deleted
C24_Witness ==
    \E v \in Vehicles :
        /\ vehicles[v].state = "deleted"
        /\ del[v].pc = "done"
        /\ Cardinality({r \in ResIds : resDocs[r].vehicle = v
                                       /\ resDocs[r].state = "deleted"}) >= 2
        /\ \A r \in ResIds : resDocs[r].state # "present"

(***************************************************************************)
(* part_000: the vehicles listener with its handler as the code runs it.   *)
(* The callback is async: it takes the documents of the snapshot, awaits   *)
(* one getDocs per vehicle and then calls setVehicles; a second snapshot   *)
(* may be delivered, and its handler may finish, while the first one is    *)
(* still awaiting.                                                         *)
(***************************************************************************)
\* what the vehicles query of the page of p returns
Listed(p) == {v \in LiveVehicles : vehicles[v].tour = tourRef(p)}

\* setVehicles(withReservations) for the vehicles of snapshot base, with the
\* reservations that getDocs returns for each of them
SetVehicles(pg, t, base) ==
    [pg EXCEPT !.vehicles = base,
               !.reservations = UNION {ReservationsAt(t, v) : v \in base}]

\* the callback is called with a snapshot that differs from the last one.
\* With no vehicle in it there is nothing to await and setVehicles([]) runs
\* before any other event; else the handler awaits its getDocs calls.
SnapshotArrives(p) ==
    /\ variant = "page"
    /\ page[p].snap # Listed(p)
    /\ page' = [page EXCEPT ![p] =
            IF Listed(p) = {}
            THEN [SetVehicles(@, tourRef(p), {}) EXCEPT !.snap = {}]
            ELSE [@ EXCEPT !.snap = Listed(p), !.fetching = @ \cup {Listed(p)}]]
    /\ UNCHANGED <<variant, txVars, appVars, request, failed, tourVars, screen>>

\* the getDocs calls of the handler of snapshot base have been answered:
\* setVehicles(withReservations)
FetchesComplete(p, base) ==
    /\ variant = "page"
    /\ base \in page[p].fetching
    /\ page' = [page EXCEPT ![p] =
            [SetVehicles(@, tourRef(p), base) EXCEPT !.fetching = @ \ {base}]]
    /\ UNCHANGED <<variant, txVars, appVars, request, failed, tourVars, screen>>

NextAsync ==
    \/ \E p \in Clients : SnapshotArrives(p)
    \/ \E p \in Clients, base \in SUBSET Vehicles : FetchesComplete(p, base)
    \/ \E p \in Clients, k \in Calls, v \in Vehicles : ApartarAsiento(p, k, v)
    \/ \E k \in Calls : TxGet(k)
    \/ \E k \in Calls : TxGetDocs(k)
    \/ \E k \in Calls : TxCommit(k)
    \/ \E p \in Clients, r \in ResIds : Cancelar(p, r)
    \/ \E p \in Clients, v \in Vehicles : EliminarVehiculo(p, v)
    \/ \E v \in Vehicles, r \in ResIds : DeleteReservation(v, r)
    \/ \E v \in Vehicles : DeleteVehicle(v)

SpecAsync == InitPage /\ [][NextAsync]_vars

\* C25: once the handlers of the snapshots delivered to a page have all
\* finished, the page lists the vehicles of the snapshot delivered last
\* (part_000).
C25_LastSnapshotWins ==
    \A p \in Clients :
        page[p].fetching = {} => page[p].vehicles = page[p].snap

(***************************************************************************)
(* Claims about the claim flow of App.jsx.                                 *)
(***************************************************************************)
\* the reservations of vehicle v in the list that p holds for the flow
ListedFor(p, accion, v) ==
    {r \in (IF accion = "reservarAsiento" THEN ui[p].reservas ELSE ui[p].reservasMicrobus) :
        dbReservas[r].vehiculoId = v}

\* one of them carries the name p has typed, ignoring case and outer blanks
ListsOwnName(p, accion, v) ==
    \E r \in ListedFor(p, accion, v) :
        ToLower(dbReservas[r].pasajero) = ToLower(Trim(ui[p].nombreUsuario))

\* the step opens the confirmation dialog of a claim of p
ClaimInitiated(p) ==
    /\ ~ui[p].showConfirmacion /\ ui'[p].showConfirmacion
    /\ ui'[p].confirmacionData.accion \in {"reservarAsiento", "reservarMicrobus"}

\* the step writes a reservation document
ReservaWritten ==
    \E r \in AppResIds : dbReservas[r].state = "none" /\ dbReservas'[r].state = "present"

\* C26: a claim is initiated (its dialog opens, from which alone a reservation
\* is written) only when the list of the client shows fewer reservations of
\* the vehicle than its asientosDisponibles and none under the name typed,
\* ignoring case; a reservation is written only for a claim that was so
\* initiated and confirmed; and pressing the reserve button while the list
\* shows a reservation under the name typed ends with the already-reserved
\* alert, no dialog and nothing written (App.jsx).
C26_ClaimCheckedOnLocalView ==
    [][/\ \A p \in Clients :
            ClaimInitiated(p)
            => LET d == ui'[p].confirmacionData IN
               /\ Cardinality(ListedFor(p, d.accion, d.datos.vehiculoId))
                     < dbVehiculos[d.datos.vehiculoId].asientosDisponibles
               /\ ~ListsOwnName(p, d.accion, d.datos.vehiculoId)
               /\ d.datos.pasajero = Trim(ui[p].nombreUsuario)
       /\ ReservaWritten
            => \E p \in Clients :
                  /\ ui[p].isLoading
                  /\ ui[p].inflight.accion \in {"reservarAsiento", "reservarMicrobus"}
       /\ \A p \in Clients, v \in Vehicles :
            /\ handleReservarAsiento(p, v) \/ handleReservarMicrobus(p, v)
            /\ requireName(ui[p].nombreUsuario)
            /\ ListsOwnName(p, IF dbVehiculos[v].tipoVehiculo = "propio"
                               THEN "reservarAsiento" ELSE "reservarMicrobus", v)
            => /\ screen'[p].alert = "AlreadyReserved"
               /\ UNCHANGED <<ui, dbVehiculos, dbReservas>>]_vars

\* the first user holds the only reservation; the second user, who typed the
\* same name in another case, has pressed the reserve button of that vehicle
\* with the reservation in its list and got the already-reserved alert
C26_Witness ==
    /\ screen # ScreenOff
    /\ screen["p2"].alert = "AlreadyReserved"
    /\ ui["p2"].nombreUsuario = <<"A", " ">>
    /\ ~ui["p2"].showConfirmacion
    /\ \E r \in AppResIds :
          /\ dbReservas[r].state = "present"
          /\ dbReservas[r].pasajero = <<"a">>
          /\ r \in ui["p2"].reservas \cup ui["p2"].reservasMicrobus
          /\ \A o \in AppResIds \ {r} : dbReservas[o].state = "none"

(***************************************************************************)
(* Claims about what a cancellation removes.                               *)
(***************************************************************************)
\* the step answers an authorized cancellation of reservation r
CancelAuthorized(r) ==
    /\ request' # request
    /\ request'.op \in {"cancelMySeat", "handleCancelarReserva",
                        "handleCancelarReservaMicrobus"}
    /\ request'.reservation = r
    /\ request'.outcome = "ok"

\* the number of reservation documents present under vehiculo v
Reservados(v) ==
    Cardinality({r \in AppResIds : dbReservas[r].state = "present"
                                   /\ dbReservas[r].vehiculoId = v})

\* C27: an authorized cancelMySeat (part_000) or handleCancelarReserva /
\* handleCancelarReservaMicrobus (App.jsx) deletes the reservation of the
\* given id and nothing else: the vehicle documents, with their seat totals,
\* and every other reservation are as before, and the number of reservations
\* present under its vehicle is one less when the reservation was present
\* and the same when it was already gone.
C27_CancelDeletesOnlyThatReservation ==
    [][/\ \A r \in ResIds :
            (variant = "tx" /\ CancelAuthorized(r))
            => /\ vehicles' = vehicles
               /\ \A o \in ResIds \ {r} : resDocs'[o] = resDocs[o]
               /\ resDocs'[r].state = "deleted"
               /\ dbVehiculos' = dbVehiculos /\ dbReservas' = dbReservas
               /\ \A v \in Vehicles :
                     Committed(v)' = Committed(v) -
                        (IF resDocs[r].vehicle = v /\ resDocs[r].state = "present"
                         THEN 1 ELSE 0)
       /\ \A r \in AppResIds :
            (variant = "app" /\ CancelAuthorized(r))
            => /\ dbVehiculos' = dbVehiculos
               /\ \A o \in AppResIds \ {r} : dbReservas'[o] = dbReservas[o]
               /\ dbReservas'[r].state = "deleted"
               /\ vehicles' = vehicles /\ resDocs' = resDocs
               /\ \A v \in Vehicles :
                     Reservados(v)' = Reservados(v) -
                        (IF dbReservas[r].vehiculoId = v /\ dbReservas[r].state = "present"
                         THEN 1 ELSE 0)]_vars

\* an authorized cancellation has been answered: its reservation is gone
\* and another reservation of the same vehicle is still there
C27_Witness ==
    /\ request # RequestOff /\ request # NoRequest
    /\ request.outcome = "ok"
    /\ \/ /\ request.op = "cancelMySeat"
          /\ resDocs[request.reservation].state = "deleted"
          /\ \E o \in ResIds \ {request.reservation} :
                /\ resDocs[o].state = "present"
                /\ resDocs[o].vehicle = resDocs[request.reservation].vehicle
       \/ /\ request.op \in {"handleCancelarReserva", "handleCancelarReservaMicrobus"}
          /\ dbReservas[request.reservation].state = "deleted"
          /\ \E o \in AppResIds \ {request.reservation} :
                /\ dbReservas[o].state = "present"
                /\ dbReservas[o].vehiculoId = dbReservas[request.reservation].vehiculoId

(***************************************************************************)
(* part_000 with users who go on claiming and releasing seats: the         *)
(* transaction of reserveSeat against the calls that follow it.            *)
(***************************************************************************)
\* "Apartar asiento" is pressed once more, by the same user under the name
\* the page has kept, after an earlier call has ended and its reservation,
\* if it made one, is gone: a new runTransaction, whose doc(resCol) is a new
\* document.  The call takes the place k of the ended
\* one once no pending deletion and no snapshot of a call refers to the old
\* document.
reserveSeatAgain(k, n, v) ==
    /\ variant = "tx"
    /\ call[k].pc = "done"
    /\ resDocs[k].state # "present"
    /\ \A w \in Vehicles : k \notin del[w].pending \cup del[w].read
    /\ \A j \in Calls : k \notin call[j].resSnap
    /\ vehicles[v].state # "none"
    /\ IF requireName(n)
       THEN /\ call' = [call EXCEPT ![k] =
                    VehicleRead([IdleCall EXCEPT !.tour = DEFAULT_TOUR_ID, !.name = n,
                                                 !.vehicle = v, !.attempts = 1])]
            /\ resDocs' = [resDocs EXCEPT ![k] = NoRes]
       ELSE UNCHANGED <<call, resDocs>>
    /\ UNCHANGED <<variant, vehicles, del, appVars, request, pageVars>>

\* the names typed by the users who call: none, and two different ones
BudgetNames == { <<" ">>, <<"a">>, <<"b">> }

\* the steps of NextTx, a seat being released by the one who holds it and the
\* vehicle deleted by its owner (another name changes nothing), and the
\* calls that follow
NextBudget ==
    \/ \E k \in Calls, n \in BudgetNames, v \in Vehicles : reserveSeat(k, n, v)
    \/ \E k \in Calls : TxGet(k)
    \/ \E k \in Calls : TxGetDocs(k)
    \/ \E k \in Calls : TxCommit(k)
    \/ \E r \in ResIds : cancelMySeat(r, resDocs[r].name)
    \/ \E v \in Vehicles : deleteMyVehicle(v, vehicles[v].ownerName)
    \/ \E v \in Vehicles, r \in ResIds : DeleteReservation(v, r)
    \/ \E v \in Vehicles : DeleteVehicle(v)
    \/ \E k \in Calls, v \in Vehicles : reserveSeatAgain(k, call[k].name, v)

InitBudget ==
    /\ variant = "tx"
    /\ InitTx
    /\ NoVehiculos /\ Idle([p \in Clients |-> NoName])

\* the store answers each read and each commit of a transaction it was sent;
\* nothing obliges a user to click, and nothing stops one
FairBudget ==
    \A k \in Calls : WF_vars(TxGet(k)) /\ WF_vars(TxGetDocs(k)) /\ WF_vars(TxCommit(k))

SpecBudget == InitBudget /\ [][NextBudget]_vars /\ FairBudget

\* how a call can end: "ok" after committing, else the error it surfaces
CallResults == {"ok", "NotFound", "Full", "AlreadyClaimed", "Aborted"}

\* C28: every reserveSeat call that has started its transaction ends, with
\* "ok" after writing its one reservation or with an error, whatever the
\* other users go on claiming, releasing and deleting meanwhile; and the
\* transaction is never run more than MaxAttempts times.
C28_ReserveSeatTerminates ==
    /\ [](\A k \in Calls :
            /\ call[k].attempts <= MaxAttempts
            /\ call[k].pc = "done"
               => /\ call[k].result \in CallResults
                  /\ call[k].result = "ok" => resDocs[k].state # "none")
    /\ \A k \in Calls :
          (call[k].pc \in {"get", "getDocs", "commit"}) ~> (call[k].pc = "done")

\* the vehicle was deleted under a transaction that was about to commit: the
\* store has run it a second time and the call has ended with NotFound,
\* while another call of the session has ended too
C28_Witness ==
    \E k \in Calls :
        /\ call[k].pc = "done"
        /\ call[k].attempts = 2
        /\ call[k].result = "NotFound"
        /\ \E j \in Calls \ {k} : call[j].pc = "done"

(***************************************************************************)
(* Claims about the confirmation dialog of App.jsx.                        *)
(***************************************************************************)
\* what the pre-check of p captures in this state for the action accion
CapturedNow(p, d) ==
    IF d.accion = "ofrecerVehiculo"
    THEN d.datos = [propietario |-> Trim(ui[p].nombreUsuario),
                    asientosDisponibles |-> NumberOf(screen[p].asientosDisponibles),
                    puntoEncuentro |-> screen[p].puntoEncuentro,
                    tipoVehiculo |-> screen[p].tipoVehiculo]
    ELSE /\ d.accion \in {"reservarAsiento", "reservarMicrobus"}
         /\ d.datos.pasajero = Trim(ui[p].nombreUsuario)
         /\ d.datos.vehiculoId \in ui[p].vehiculos \cup ui[p].microbuses

\* the step writes to the store the one document of the action d
WritesDocumentOf(d) ==
    IF d.accion = "ofrecerVehiculo"
    THEN /\ dbReservas' = dbReservas
         /\ \E v \in Vehicles :
               /\ dbVehiculos[v].state = "none"
               /\ dbVehiculos' = [dbVehiculos EXCEPT ![v] =
                     [state |-> "live",
                      propietario |-> d.datos.propietario,
                      asientosDisponibles |-> d.datos.asientosDisponibles,
                      puntoEncuentro |-> d.datos.puntoEncuentro,
                      tipoVehiculo |-> d.datos.tipoVehiculo]]
    ELSE /\ dbVehiculos' = dbVehiculos
         /\ d.accion \in {"reservarAsiento", "reservarMicrobus"}
         /\ \E r \in AppResIds :
               /\ dbReservas[r].state = "none"
               /\ dbReservas' = [dbReservas EXCEPT ![r] =
                     ReservaDoc(IF d.accion = "reservarAsiento"
                                THEN "reservas" ELSE "reservasMicrobus", d.datos)]

\* C29: in the offer and claim flows of App.jsx (a) the store changes only
\* by the one document of an action that a client has confirmed and whose
\* write is in flight; (b) an action comes to be in flight only by Confirmar
\* in an open dialog, and it is the pending action of that dialog; (c) a
\* pending action is set only by a pre-check that opens the dialog, from the
\* name and the form as they are then; (d) Cancelar before Confirmar closes
\* the dialog, leaves no pending action and writes nothing, and with the
\* dialog closed nothing can come to be in flight, so a cancelled action is
\* not replayed.
C29_WriteOnlyAfterConfirm ==
    [][/\ <<dbVehiculos, dbReservas>>' # <<dbVehiculos, dbReservas>>
            => \E p \in Clients :
                  /\ ui[p].isLoading
                  /\ ui[p].inflight # NoData
                  /\ WritesDocumentOf(ui[p].inflight)
       /\ \A p \in Clients :
            /\ (ui'[p].inflight # ui[p].inflight /\ ui'[p].inflight # NoData)
               => /\ ui[p].showConfirmacion
                  /\ ~ui[p].isLoading
                  /\ ui[p].confirmacionData # NoData
                  /\ ui'[p].inflight = ui[p].confirmacionData
            /\ (ui'[p].confirmacionData # ui[p].confirmacionData
                  /\ ui'[p].confirmacionData # NoData)
               => /\ ~ui[p].showConfirmacion /\ ui'[p].showConfirmacion
                  /\ CapturedNow(p, ui'[p].confirmacionData)
            /\ (ui[p].showConfirmacion /\ ~ui[p].isLoading /\ ~ui'[p].showConfirmacion)
               => /\ ui'[p].confirmacionData = NoData
                  /\ ui'[p].inflight = NoData
                  /\ UNCHANGED <<dbVehiculos, dbReservas>>
            /\ (ui[p].showConfirmacion /\ ~ui[p].isLoading)
               => ui[p].confirmacionData # NoData]_vars

\* the first user has pressed Confirmar in the dialog of a claim and the
\* write has been answered: the dialog is closed, nothing is in flight, and
\* the only document of the store is the one the pre-check captured
C29_Witness ==
    /\ variant = "app" /\ screen # ScreenOff
    /\ ~ui["p1"].showConfirmacion /\ ~ui["p1"].isLoading
    /\ ui["p1"].inflight = NoData
    /\ ui["p1"].confirmacionData # NoData
    /\ \E r \in AppResIds :
          /\ dbReservas[r] =
                ReservaDoc(IF ui["p1"].confirmacionData.accion = "reservarAsiento"
                           THEN "reservas" ELSE "reservasMicrobus",
                           ui["p1"].confirmacionData.datos)
          /\ \A o \in AppResIds \ {r} : dbReservas[o].state = "none"

=============================================================================
